---- MODULE Spec2Model ----
(***************************************************************************)
(* Basketball QuickTrack: the record accessors of db_helpers.py, the page  *)
(* flow of simple_basketball_tracker_mysql.py and its analytics            *)
(* computations, as a state machine over the stored tables.                *)
(*                                                                         *)
(* A table is the sequence of its rows in insertion order; the             *)
(* auto-increment id of a row is its position (no statement of the         *)
(* program deletes a row).  A DataFrame is the sequence of its rows.       *)
(* A query whose ORDER BY leaves rows tied may return them in any order:   *)
(* such a query is the SET of the DataFrames it may return.                *)
(*                                                                         *)
(* Columns that are written once and read by none of the operations below  *)
(* (team_name, season, position, game_date, location, quarter,             *)
(* time_remaining, players_on_court) are left out of the rows.             *)
(***************************************************************************)
EXTENDS Integers, Sequences, FiniteSets, TLC

VARIABLES
    teams,              \* table teams
    players,            \* table players
    games,              \* table games
    possessions,        \* table possessions
    player_game_stats,  \* table player_game_stats
    session_team_id,    \* st.session_state.team_id, None while unset
    sessions,           \* number of browser sessions started so far
    call_log,           \* the direct upsert_player_stats calls made so far
    stats_df,           \* analytics page: the stat lines in scope
    display_df,         \* analytics page: the player performance table
    shown,              \* analytics page: whether the table was rendered
    detailed_possessions, \* table detailed_possessions
    shots,              \* table shots
    analysis,           \* the latest analytics query and the DataFrame it gave
    last_write,         \* the latest write a record accessor issued, and its end
    last_read,          \* the latest read issued through query_db, and its end
    last_score          \* the latest score entry or update_game_score call

vars == <<teams, players, games, possessions, player_game_stats,
          session_team_id, sessions, call_log, stats_df, display_df, shown,
          detailed_possessions, shots, analysis, last_write, last_read,
          last_score>>

\* the detailed tables and the records of the latest calls
ext_vars == <<detailed_possessions, shots, analysis, last_write, last_read,
              last_score>>

db_vars == <<teams, players, games, possessions, player_game_stats>>
calc_vars == <<stats_df, display_df, shown>>

----------------------------------------------------------------------------
(* Bounds of the model *)

MaxGames == 2
MaxPoss == 2
MaxPlayers == 1
MaxSessions == 2
MaxClock == 1
MaxCalls == 2
MaxDirectGames == 3
MaxStat == 1
MaxRows == 3
MaxAnalysed == 3
MaxShots == 3
MaxLineupCalls == 3
MaxStored == 2

----------------------------------------------------------------------------
(* Values *)

\* Python's None where an id is expected (ids start at 1)
None == 0

\* Python's None / SQL NULL in a text column
NoneStr == "None"

\* st.date_input("Game Date", datetime.now()) left at its default
Today == "today"

Outcomes == {"GOOD", "NEUTRAL", "FAILED"}

FailureTypes == {"Turnover", "Ball_Advancement", "Shot_Selection", "Bad_Process"}

\* the keys upsert_player_stats reads from its stats dict
StatKeys == {"minutes", "points", "assists", "rebounds_offensive",
             "rebounds_defensive", "turnovers", "steals", "blocks", "fouls"}

\* the stat columns of player_game_stats
StatCols == {"minutes_played", "points", "assists", "rebounds_offensive",
             "rebounds_defensive", "turnovers", "steals", "blocks", "fouls"}

\* the dict key that feeds each stat column
KeyOf(col) == IF col = "minutes_played" THEN "minutes" ELSE col

Range(s) == {s[i] : i \in 1..Len(s)}

\* the reading of the server clock by a DEFAULT CURRENT_TIMESTAMP column:
\* never earlier than a stored timestamp, possibly equal to the latest one
LatestStamp ==
    LET S == {teams[i].created_at : i \in 1..Len(teams)}
             \cup {games[i].created_at : i \in 1..Len(games)}
    IN IF S = {} THEN 0 ELSE CHOOSE m \in S : \A x \in S : x <= m

ClockReads == {t \in {LatestStamp, LatestStamp + 1} : t <= MaxClock}

\* ORDER BY key DESC over rows, key[r] being the sort key of row r: every
\* ordering of the rows in which the key never increases
OrderByDesc(rows, key) ==
    LET n == Cardinality(rows)
    IN {s \in [1..n -> rows] :
          /\ \A i, j \in 1..n : i # j => s[i] # s[j]
          /\ \A i \in 1..n : i < n => key[s[i]] >= key[s[i + 1]]}

\* LIMIT k
Limit(df, k) == SubSeq(df, 1, IF Len(df) < k THEN Len(df) ELSE k)

----------------------------------------------------------------------------
(* json.dumps of a list of ints; a text is the sequence of its characters *)

DigitChars == <<"0", "1", "2", "3", "4", "5", "6", "7", "8", "9">>

RECURSIVE int_repr(_)
\* the decimal digits of n >= 0
int_repr(n) ==
    IF n < 10 THEN <<DigitChars[n + 1]>>
    ELSE int_repr(n \div 10) \o <<DigitChars[(n % 10) + 1]>>

RECURSIVE json_items(_)
\* the items of the list, separated by ", "
json_items(ids) ==
    IF Len(ids) = 0 THEN <<>>
    ELSE IF Len(ids) = 1 THEN int_repr(ids[1])
    ELSE json_items(SubSeq(ids, 1, Len(ids) - 1)) \o <<",", " ">>
         \o int_repr(ids[Len(ids)])

json_dumps_Sorted(ids) ==
    LET n == Cardinality(Range(ids))
        sorted == CHOOSE q \in [1..n -> Range(ids)] :
                    \A i, j \in 1..n : i < j => q[i] < q[j]
    IN <<"[">> \o json_items(sorted) \o <<"]">>

json_dumps(ids) == <<"[">> \o json_items(ids) \o <<"]">>

----------------------------------------------------------------------------
(* Record accessors (db_helpers.py) *)

\* SELECT * FROM teams ORDER BY created_at DESC
get_teams == OrderByDesc(Range(teams), [r \in Range(teams) |-> r.created_at])

get_current_team_id_AlwaysNone == {None}

\* df.iloc[0]['team_id'] if not df.empty else None
get_current_team_id ==
    {IF Len(df) > 0 THEN df[1].team_id ELSE None : df \in get_teams}

\* INSERT INTO teams; returns lastrowid
create_team(ts) ==
    Append(teams, [team_id |-> Len(teams) + 1, created_at |-> ts])

\* SELECT * FROM players WHERE team_id = :team_id
get_players(team_id) == SelectSeq(players, LAMBDA r : r.team_id = team_id)

\* INSERT INTO players
add_player(team_id, name, number) ==
    Append(players, [player_id |-> Len(players) + 1, team_id |-> team_id,
                     player_name |-> name, jersey_number |-> number])

\* INSERT INTO games (team_id, game_date, opponent, location); returns lastrowid.
\* The columns it does not name take their defaults: scores 0, not completed.
create_game(team_id, game_date, opponent, ts) ==
    Append(games, [game_id |-> Len(games) + 1, team_id |-> team_id,
                   game_date |-> game_date,
                   opponent |-> opponent, created_at |-> ts,
                   final_score_us |-> 0, final_score_them |-> 0,
                   game_completed |-> FALSE])

complete_game_Toggle(game_id) ==
    [i \in 1..Len(games) |->
        IF games[i].game_id = game_id
        THEN [games[i] EXCEPT !.game_completed = ~games[i].game_completed]
        ELSE games[i]]

\* UPDATE games SET game_completed = TRUE WHERE game_id = :game_id
complete_game(game_id) ==
    [i \in 1..Len(games) |->
        IF games[i].game_id = game_id
        THEN [games[i] EXCEPT !.game_completed = TRUE]
        ELSE games[i]]

get_games_IgnoresCompletedOnly(team_id, completed_only) ==
    SelectSeq(games, LAMBDA r : r.team_id = team_id)

\* SELECT * FROM games WHERE team_id = :team_id [AND game_completed = TRUE]
\* (the rows in the order of their ids; completed_games_df gives the page its
\* ORDER BY game_date)
get_games(team_id, completed_only) ==
    SelectSeq(games, LAMBDA r : /\ r.team_id = team_id
                              /\ (completed_only => r.game_completed))

get_active_game_IgnoresCompletion(team_id) ==
    LET rows == {r \in Range(games) : r.team_id = team_id}
    IN {Limit(df, 1) : df \in OrderByDesc(rows, [r \in rows |-> r.created_at])}

get_active_game_Oldest(team_id) ==
    LET rows == {r \in Range(games) : r.team_id = team_id /\ ~r.game_completed}
    IN {Limit(df, 1) : df \in OrderByDesc(rows, [r \in rows |-> 0 - r.created_at])}

\* SELECT * FROM games WHERE team_id = :team_id AND game_completed = FALSE
\* ORDER BY created_at DESC LIMIT 1; df.iloc[0].to_dict() if not df.empty
\* else None.  The value is the set of the results the query may give, each
\* a DataFrame of at most one row; the empty one stands for None.
get_active_game(team_id) ==
    LET rows == {r \in Range(games) : r.team_id = team_id /\ ~r.game_completed}
    IN {Limit(df, 1) : df \in OrderByDesc(rows, [r \in rows |-> r.created_at])}

\* INSERT INTO possessions
add_possession(game_id, outcome, failure_type, players_on_court) ==
    Append(possessions, [possession_id |-> Len(possessions) + 1,
                         game_id |-> game_id, outcome |-> outcome,
                         failure_type |-> failure_type,
                         players_on_court |-> json_dumps(players_on_court)])

\* SELECT * FROM possessions WHERE game_id = :game_id ORDER BY possession_id
get_possessions(game_id) == SelectSeq(possessions, LAMBDA r : r.game_id = game_id)

\* the unique key of player_game_stats that ON DUPLICATE KEY UPDATE acts on
pgs_unique_key(row) == <<row.game_id, row.player_id>>

\* stats.get(key, default)
dict_get(stats, key, default) ==
    IF key \in DOMAIN stats THEN stats[key] ELSE default

upsert_values_SwapsIds(game_id, player_id, stats) ==
    [game_id            |-> player_id,
     player_id          |-> game_id,
     minutes_played     |-> dict_get(stats, "minutes", 0),
     points             |-> dict_get(stats, "points", 0),
     assists            |-> dict_get(stats, "assists", 0),
     rebounds_offensive |-> dict_get(stats, "rebounds_offensive", 0),
     rebounds_defensive |-> dict_get(stats, "rebounds_defensive", 0),
     turnovers          |-> dict_get(stats, "turnovers", 0),
     steals             |-> dict_get(stats, "steals", 0),
     blocks             |-> dict_get(stats, "blocks", 0),
     fouls              |-> dict_get(stats, "fouls", 0)]

\* the row bound to the VALUES clause of upsert_player_stats
upsert_values(game_id, player_id, stats) ==
    [game_id            |-> game_id,
     player_id          |-> player_id,
     minutes_played     |-> dict_get(stats, "minutes", 0),
     points             |-> dict_get(stats, "points", 0),
     assists            |-> dict_get(stats, "assists", 0),
     rebounds_offensive |-> dict_get(stats, "rebounds_offensive", 0),
     rebounds_defensive |-> dict_get(stats, "rebounds_defensive", 0),
     turnovers          |-> dict_get(stats, "turnovers", 0),
     steals             |-> dict_get(stats, "steals", 0),
     blocks             |-> dict_get(stats, "blocks", 0),
     fouls              |-> dict_get(stats, "fouls", 0)]

\* a merge of the new dict into the stored row: a column whose key the dict
\* lacks keeps its stored value
upsert_player_stats_Merge(game_id, player_id, stats) ==
    LET new == upsert_values(game_id, player_id, stats)
        hit == {i \in 1..Len(player_game_stats) :
                  pgs_unique_key(player_game_stats[i]) = pgs_unique_key(new)}
    IN IF hit = {}
       THEN Append(player_game_stats, new)
       ELSE [i \in 1..Len(player_game_stats) |->
               IF i \in hit
               THEN [c \in DOMAIN new |->
                       IF c \in StatCols /\ KeyOf(c) \notin DOMAIN stats
                       THEN player_game_stats[i][c] ELSE new[c]]
               ELSE player_game_stats[i]]

\* INSERT INTO player_game_stats ... ON DUPLICATE KEY UPDATE col = VALUES(col)
\* for the nine stat columns: a row with the same unique key has its stat
\* columns overwritten, otherwise the row is inserted
upsert_player_stats(game_id, player_id, stats) ==
    LET new == upsert_values(game_id, player_id, stats)
        hit == {i \in 1..Len(player_game_stats) :
                  pgs_unique_key(player_game_stats[i]) = pgs_unique_key(new)}
    IN IF hit = {}
       THEN Append(player_game_stats, new)
       ELSE [i \in 1..Len(player_game_stats) |->
               IF i \in hit
               THEN [c \in DOMAIN new |->
                       IF c \in StatCols THEN new[c] ELSE player_game_stats[i][c]]
               ELSE player_game_stats[i]]

\* SELECT pgs.*, p.player_name, p.jersey_number
\* FROM player_game_stats pgs JOIN players p
\* ON pgs.player_id = p.player_id WHERE pgs.game_id = :game_id
get_player_stats(game_id) ==
    LET pgs == SelectSeq(player_game_stats,
                  LAMBDA r : /\ r.game_id = game_id
                             /\ \E i \in 1..Len(players) :
                                   players[i].player_id = r.player_id)
        p(r) == players[CHOOSE i \in 1..Len(players) :
                           players[i].player_id = r.player_id]
    IN [k \in 1..Len(pgs) |->
          pgs[k] @@ [player_name |-> p(pgs[k]).player_name,
                     jersey_number |-> p(pgs[k]).jersey_number]]

----------------------------------------------------------------------------
(* Initial state: the tables of a fresh database, no browser session *)

NoCall == [op |-> "none"]

InitExt ==
    /\ detailed_possessions = <<>>
    /\ shots = <<>>
    /\ analysis = NoCall
    /\ last_write = NoCall
    /\ last_read = NoCall
    /\ last_score = NoCall

Init ==
    /\ teams = <<>>
    /\ players = <<>>
    /\ games = <<>>
    /\ possessions = <<>>
    /\ player_game_stats = <<>>
    /\ session_team_id = None
    /\ sessions = 0
    /\ call_log = <<>>
    /\ stats_df = <<>>
    /\ display_df = <<>>
    /\ shown = FALSE
    /\ InitExt

----------------------------------------------------------------------------
(* Direct calls of the game accessors, by any caller, in any order.  The   *)
(* statements do not check that the team or the game exists.               *)

TeamIdArgs == {1, 2}

CallCreateGame ==
    /\ Len(games) < MaxDirectGames
    /\ \E team_id \in TeamIdArgs, ts \in ClockReads :
         games' = create_game(team_id, Today, "Lions", ts)
    /\ UNCHANGED <<teams, players, possessions, player_game_stats,
                   session_team_id, sessions, call_log, calc_vars, ext_vars>>

CallCompleteGame ==
    /\ \E game_id \in 1..Len(games) :
         /\ ~games[game_id].game_completed
         /\ games' = complete_game(game_id)
    /\ UNCHANGED <<teams, players, possessions, player_game_stats,
                   session_team_id, sessions, call_log, calc_vars, ext_vars>>

NextGames == CallCreateGame \/ CallCompleteGame

SpecGames == Init /\ [][NextGames]_vars

----------------------------------------------------------------------------
(* Direct calls of upsert_player_stats with any stats dict.  The statement *)
(* does not check that the game or the player exists.                      *)

UpsertKeyArgs == {<<1, 1>>, <<1, 2>>, <<2, 1>>}

\* stats dicts: the empty dict, every dict with one key, and the full dicts
StatsArgs ==
    {<<>>}
    \cup {[k \in {key} |-> v] : key \in StatKeys, v \in 1..MaxStat}
    \cup {[k \in StatKeys |-> v] : v \in 1..MaxStat}

CallUpsertPlayerStats ==
    /\ Len(call_log) < MaxCalls
    /\ \E key \in UpsertKeyArgs, stats \in StatsArgs :
         /\ player_game_stats' = upsert_player_stats(key[1], key[2], stats)
         /\ call_log' = Append(call_log, [game_id |-> key[1],
                                          player_id |-> key[2],
                                          stats |-> stats])
    /\ UNCHANGED <<teams, players, games, possessions,
                   session_team_id, sessions, calc_vars, ext_vars>>

NextUpsert == CallUpsertPlayerStats

SpecUpsert == Init /\ [][NextUpsert]_vars

----------------------------------------------------------------------------
(* The page flow (simple_basketball_tracker_mysql.py).  Each action is one *)
(* run of the script: the first run of a browser session, or the rerun a   *)
(* widget interaction triggers.  The score inputs, the lineup selectors    *)
(* and the player stats form write only final_score_us/final_score_them,   *)
(* players_on_court and player_game_stats, which no action below reads.    *)

NameInputs == {"", "Ann"}
NumberInputs == {"", "7"}
OpponentInputs == {"", "Lions"}

\* the first script run of a session: 'team_id' not in st.session_state
Startup ==
    /\ session_team_id = None
    /\ sessions < MaxSessions
    /\ sessions' = sessions + 1
    /\ \E team_id \in get_current_team_id :
         IF team_id = None
         THEN \E ts \in ClockReads :
                /\ teams' = create_team(ts)
                /\ session_team_id' = Len(teams) + 1
         ELSE /\ session_team_id' = team_id
              /\ UNCHANGED teams
    /\ UNCHANGED <<players, games, possessions, player_game_stats,
                   call_log, calc_vars, ext_vars>>

\* the browser session ends; the next one starts with an empty session_state
NewSession ==
    /\ session_team_id # None
    /\ session_team_id' = None
    /\ UNCHANGED <<db_vars, sessions, call_log, calc_vars, ext_vars>>

\* Manage Players: the Add Player button
AddPlayer ==
    /\ session_team_id # None
    /\ Len(players) < MaxPlayers
    /\ \E new_name \in NameInputs, new_number \in NumberInputs :
         IF new_name # "" /\ new_number # ""
         THEN players' = add_player(session_team_id, new_name, new_number)
         ELSE UNCHANGED players
    /\ UNCHANGED <<teams, games, possessions, player_game_stats,
                   session_team_id, sessions, call_log, calc_vars, ext_vars>>

StartGame_Unguarded ==
    /\ session_team_id # None
    /\ Len(games) < MaxGames
    /\ \E opponent \in OpponentInputs, ts \in ClockReads :
         IF opponent # ""
         THEN games' = create_game(session_team_id, Today, opponent, ts)
         ELSE UNCHANGED games
    /\ UNCHANGED <<teams, players, possessions, player_game_stats,
                   session_team_id, sessions, call_log, calc_vars, ext_vars>>

\* Game Tracker with no active game: the Start Game button
StartGame ==
    /\ session_team_id # None
    /\ Len(games) < MaxGames
    /\ \E active_game \in get_active_game(session_team_id) :
         /\ Len(active_game) = 0
         /\ \E opponent \in OpponentInputs, ts \in ClockReads :
              IF opponent # ""
              THEN games' = create_game(session_team_id, Today, opponent, ts)
              ELSE UNCHANGED games
    /\ UNCHANGED <<teams, players, possessions, player_game_stats,
                   session_team_id, sessions, call_log, calc_vars, ext_vars>>

\* Game Tracker with an active game and a non-empty roster: a possession
\* button, which stores the outcome with the failure type given
TrackPossession(outcome, failure_type) ==
    /\ session_team_id # None
    /\ Len(possessions) < MaxPoss
    /\ \E active_game \in get_active_game(session_team_id) :
         /\ Len(active_game) = 1
         /\ Len(get_players(session_team_id)) > 0
         \* selected_players = [], every "Player i" selectbox being left at
         \* its first option "None"
         /\ possessions' = add_possession(active_game[1].game_id, outcome,
                                          failure_type, <<>>)
    /\ UNCHANGED <<teams, players, games, player_game_stats,
                   session_team_id, sessions, call_log, calc_vars, ext_vars>>

TrackGood == TrackPossession("GOOD", NoneStr)

TrackNeutral_WithReason == \E failure_type \in FailureTypes :
    TrackPossession("NEUTRAL", failure_type)

TrackNeutral == TrackPossession("NEUTRAL", NoneStr)

\* the failure type is the value of the "If Failed, Why?" selectbox
TrackFailed == \E failure_type \in FailureTypes :
    TrackPossession("FAILED", failure_type)

\* Game Tracker with an active game: the End Game button
EndGame ==
    /\ session_team_id # None
    /\ \E active_game \in get_active_game(session_team_id) :
         /\ Len(active_game) = 1
         /\ games' = complete_game(active_game[1].game_id)
    /\ UNCHANGED <<teams, players, possessions, player_game_stats,
                   session_team_id, sessions, call_log, calc_vars, ext_vars>>

NextUI ==
    \/ Startup
    \/ NewSession
    \/ AddPlayer
    \/ StartGame
    \/ TrackGood
    \/ TrackNeutral
    \/ TrackFailed
    \/ EndGame

SpecUI == Init /\ [][NextUI]_vars

----------------------------------------------------------------------------
(* Possession quality: the live summary of the tracker page and the        *)
(* possession analysis of the analytics page                               *)

\* Python's a / b on ints: a fraction, or ZeroDivisionError when b = 0
py_truediv(a, b) ==
    IF b = 0
    THEN [error |-> "ZeroDivisionError", num |-> 0, den |-> 1]
    ELSE [error |-> "", num |-> a, den |-> b]

\* n / total * 100
percent_of(n, total) ==
    LET q == py_truediv(n, total)
    IN [q EXCEPT !.num = @ * 100]

\* len(df[df['outcome'] == outcome])
count_outcome(df, outcome) == Len(SelectSeq(df, LAMBDA r : r.outcome = outcome))

NoSummary ==
    [shown |-> FALSE, total |-> 0, good |-> 0, failed |-> 0,
     efficiency |-> [error |-> "", num |-> 0, den |-> 1],
     waste_rate |-> [error |-> "", num |-> 0, den |-> 1]]

live_summary_Unguarded(possessions_df) ==
    LET total_poss == Len(possessions_df)
        good_poss == count_outcome(possessions_df, "GOOD")
        failed_poss == count_outcome(possessions_df, "FAILED")
    IN [shown |-> TRUE, total |-> total_poss,
        good |-> good_poss, failed |-> failed_poss,
        efficiency |-> percent_of(good_poss, total_poss),
        waste_rate |-> percent_of(failed_poss, total_poss)]

live_summary_FailedIsNotGood(possessions_df) ==
    LET total_poss == Len(possessions_df)
        good_poss == count_outcome(possessions_df, "GOOD")
        failed_poss == total_poss - good_poss
    IN IF Len(possessions_df) > 0
       THEN [shown |-> TRUE, total |-> total_poss,
             good |-> good_poss, failed |-> failed_poss,
             efficiency |-> percent_of(good_poss, total_poss),
             waste_rate |-> percent_of(failed_poss, total_poss)]
       ELSE NoSummary

\* Live Game Summary: if not possessions_df.empty, the total, the GOOD and
\* FAILED counts, efficiency and waste rate; else the "Start tracking" note
live_summary(possessions_df) ==
    LET total_poss == Len(possessions_df)
        good_poss == count_outcome(possessions_df, "GOOD")
        failed_poss == count_outcome(possessions_df, "FAILED")
    IN IF Len(possessions_df) > 0
       THEN [shown |-> TRUE, total |-> total_poss,
             good |-> good_poss, failed |-> failed_poss,
             efficiency |-> percent_of(good_poss, total_poss),
             waste_rate |-> percent_of(failed_poss, total_poss)]
       ELSE NoSummary

\* Possession Quality Analysis: if not possessions_df.empty, the same
\* metrics over the possessions in scope; else nothing is rendered
possession_quality(possessions_df) ==
    LET total == Len(possessions_df)
        good == count_outcome(possessions_df, "GOOD")
        failed == count_outcome(possessions_df, "FAILED")
    IN IF Len(possessions_df) > 0
       THEN [shown |-> TRUE, total |-> total, good |-> good, failed |-> failed,
             efficiency |-> percent_of(good, total),
             waste_rate |-> percent_of(failed, total)]
       ELSE NoSummary

\* the possession sets the tracker page summarises: those of the games
\* get_active_game may surface, once the roster is not empty
LiveSummaryPossessions ==
    IF session_team_id = None \/ Len(get_players(session_team_id)) = 0
    THEN {}
    ELSE {get_possessions(active_game[1].game_id) :
            active_game \in {df \in get_active_game(session_team_id) : Len(df) = 1}}

RECURSIVE concat_possessions(_)
\* pd.concat of get_possessions(game_id) over the rows of games_df
concat_possessions(games_df) ==
    IF Len(games_df) = 0 THEN <<>>
    ELSE get_possessions(games_df[1].game_id) \o concat_possessions(Tail(games_df))

\* the possession sets the analytics page may analyse: with completed games
\* present, "All Games" or one of the completed games
AnalyticsPossessions ==
    IF session_team_id = None THEN {}
    ELSE LET games_df == get_games(session_team_id, TRUE)
         IN IF Len(games_df) = 0 THEN {}
            ELSE {concat_possessions(games_df)}
                 \cup {get_possessions(games_df[i].game_id) : i \in 1..Len(games_df)}

\* the metrics on screen, each with the possession set it was computed from
ShownMetrics ==
    {<<df, live_summary(df)>> : df \in LiveSummaryPossessions}
    \cup {<<df, possession_quality(df)>> : df \in AnalyticsPossessions}

----------------------------------------------------------------------------
(* Player performance (analytics page), on the stat lines in scope         *)

\* n / d rounded to the nearest integer, a half going to the even neighbour
\* (numpy's round), for d > 0
round_half_even(n, d) ==
    LET q == n \div d
        r == n % d
    IN IF 2 * r < d THEN q
       ELSE IF 2 * r > d THEN q + 1
       ELSE IF q % 2 = 0 THEN q ELSE q + 1

\* (net_impact / minutes_played * 10).round(1) on int64 columns: pandas
\* raises nothing on a zero divisor and gives inf, -inf or NaN; a finite
\* value is kept in tenths
net_impact_per_10(net_impact, minutes_played) ==
    IF minutes_played = 0
    THEN [kind |-> IF net_impact > 0 THEN "inf"
                   ELSE IF net_impact < 0 THEN "-inf" ELSE "NaN",
          tenths |-> 0]
    ELSE [kind |-> "finite",
          tenths |-> round_half_even(net_impact * 100, minutes_played)]

net_impact_BlocksCount(r) ==
    r.points + r.assists * 2 + (r.rebounds_offensive + r.rebounds_defensive)
    + r.steals + r.blocks - r.turnovers * 2 - r.fouls

\* stats_df['net_impact']
net_impact(r) ==
    r.points + r.assists * 2 + (r.rebounds_offensive + r.rebounds_defensive)
    + r.steals - r.turnovers * 2 - r.fouls

\* the columns of the display table, with the player's id for the name
display_row(r) ==
    [player_id |-> r.player_id,
     minutes_played |-> r.minutes_played,
     points |-> r.points,
     assists |-> r.assists,
     total_rebounds |-> r.rebounds_offensive + r.rebounds_defensive,
     turnovers |-> r.turnovers,
     steals |-> r.steals,
     net_impact |-> net_impact(r),
     net_impact_per_10 |-> net_impact_per_10(net_impact(r), r.minutes_played)]

player_performance_Ascending(df) ==
    LET rows == {display_row(df[i]) : i \in 1..Len(df)}
    IN OrderByDesc(rows, [r \in rows |-> 0 - r.net_impact])

\* stats_df[display_cols].sort_values('net_impact', ascending=False): the
\* tables the sort may give (rows of equal net_impact in any order)
player_performance(df) ==
    LET rows == {display_row(df[i]) : i \in 1..Len(df)}
    IN OrderByDesc(rows, [r \in rows |-> r.net_impact])

\* a stat line as get_player_stats returns it
StatLine(id, min, pts, ast, ro, rd, tov, stl, blk, pf) ==
    [player_id |-> id, minutes_played |-> min, points |-> pts, assists |-> ast,
     rebounds_offensive |-> ro, rebounds_defensive |-> rd, turnovers |-> tov,
     steals |-> stl, blocks |-> blk, fouls |-> pf]

\* the stat line of a player with 10 points, 3 assists, 2 + 4 rebounds,
\* 2 turnovers, 1 steal, no block, 3 fouls in 20 minutes
ExampleLine == StatLine(1, 20, 10, 3, 2, 4, 2, 1, 0, 3)

\* one-line tables: every stat between 0 and MaxStat
OneLineTables ==
    {<<StatLine(1, f[1], f[2], f[3], f[4], f[5], f[6], f[7], f[8], f[9])>> :
        f \in [1..9 -> 0..MaxStat]}

\* tables of up to MaxRows players who differ in points and turnovers
ManyLineTables ==
    UNION {{[i \in 1..n |->
                 StatLine(i, 10, f[i][1], 0, 0, 0, f[i][2], 0, 0, 0)] :
              f \in [1..n -> (0..MaxStat) \X (0..MaxStat)]} : n \in 2..MaxRows}

InitAnalytics ==
    /\ teams = <<>>
    /\ players = <<>>
    /\ games = <<>>
    /\ possessions = <<>>
    /\ player_game_stats = <<>>
    /\ session_team_id = None
    /\ sessions = 0
    /\ call_log = <<>>
    /\ stats_df \in OneLineTables \cup {<<ExampleLine>>} \cup ManyLineTables
    /\ display_df = <<>>
    /\ shown = FALSE
    /\ InitExt

\* if not stats_df.empty: compute the metrics, sort and render the table
ShowPlayerPerformance ==
    /\ ~shown
    /\ Len(stats_df) > 0
    /\ \E table \in player_performance(stats_df) :
         /\ display_df' = table
         /\ shown' = TRUE
    /\ UNCHANGED <<db_vars, session_team_id, sessions, call_log, stats_df, ext_vars>>

NextAnalytics == ShowPlayerPerformance

SpecAnalytics == InitAnalytics /\ [][NextAnalytics]_vars

----------------------------------------------------------------------------
(* Constraint analysis, over the possession tables direct add_possession   *)
(* calls for two games can leave                                           *)

GameIdArgs == {1, 2}

get_constraint_analysis_AllOutcomes(game_id) ==
    LET failed == {i \in 1..Len(possessions) : possessions[i].game_id = game_id}
        rows == {[failure_type |-> t,
                  count |-> Cardinality({i \in failed :
                                            possessions[i].failure_type = t})] :
                 t \in {possessions[i].failure_type : i \in failed}}
    IN OrderByDesc(rows, [r \in rows |-> r.count])

\* SELECT failure_type, COUNT(*) as count FROM possessions
\* WHERE game_id = :game_id AND outcome = 'FAILED'
\* GROUP BY failure_type ORDER BY count DESC
get_constraint_analysis(game_id) ==
    LET failed == {i \in 1..Len(possessions) :
                     /\ possessions[i].game_id = game_id
                     /\ possessions[i].outcome = "FAILED"}
        rows == {[failure_type |-> t,
                  count |-> Cardinality({i \in failed :
                                            possessions[i].failure_type = t})] :
                 t \in {possessions[i].failure_type : i \in failed}}
    IN OrderByDesc(rows, [r \in rows |-> r.count])

\* constraint_df.iloc[0]['failure_type'], shown if not constraint_df.empty
surfaced_constraint(constraint_df) == constraint_df[1].failure_type

\* what a possession button passes to add_possession
ButtonArgs ==
    {<<"GOOD", NoneStr>>, <<"NEUTRAL", NoneStr>>}
    \cup {<<"FAILED", t>> : t \in FailureTypes}

\* a possession row as add_possession stores it
PossessionRow(id, game_id, outcome, failure_type) ==
    [possession_id |-> id, game_id |-> game_id, outcome |-> outcome,
     failure_type |-> failure_type, players_on_court |-> json_dumps(<<>>)]

\* FAILED/Turnover, FAILED/Turnover, FAILED/Shot_Selection, GOOD in game 1
ExamplePossessions ==
    <<PossessionRow(1, 1, "FAILED", "Turnover"),
      PossessionRow(2, 1, "FAILED", "Turnover"),
      PossessionRow(3, 1, "FAILED", "Shot_Selection"),
      PossessionRow(4, 1, "GOOD", NoneStr)>>

\* the button presses the analysed tables are built from: one that did not
\* fail and three reasons of failure
AnalysedArgs ==
    {a \in ButtonArgs : a[1] # "NEUTRAL" /\ a[2] # "Ball_Advancement"}

\* the possession tables of up to MaxAnalysed rows
PossessionTables ==
    UNION {{[i \in 1..n |-> PossessionRow(i, f[i][1], f[i][2][1], f[i][2][2])] :
              f \in [1..n -> GameIdArgs \X AnalysedArgs]} : n \in 0..MaxAnalysed}

InitConstraint ==
    /\ teams = <<>>
    /\ players = <<>>
    /\ games = <<>>
    /\ possessions \in PossessionTables \cup {ExamplePossessions}
    /\ player_game_stats = <<>>
    /\ session_team_id = None
    /\ sessions = 0
    /\ call_log = <<>>
    /\ stats_df = <<>>
    /\ display_df = <<>>
    /\ shown = FALSE
    /\ InitExt

\* one call of get_constraint_analysis
AnalyseConstraint ==
    /\ \E game_id \in GameIdArgs : \E df \in get_constraint_analysis(game_id) :
         analysis' = [op |-> "get_constraint_analysis", game_id |-> game_id,
                      df |-> df]
    /\ UNCHANGED <<db_vars, session_team_id, sessions, call_log, calc_vars,
                   detailed_possessions, shots, last_write, last_read, last_score>>

NextConstraint == AnalyseConstraint

SpecConstraint == InitConstraint /\ [][NextConstraint]_vars

----------------------------------------------------------------------------
(* Shooting statistics, over shots tables add_shot calls can leave *)

\* INSERT INTO shots (game_id, player_id, quarter, time_elapsed_seconds,
\*                    shot_type, shot_quality, made), table being the shots
\* table the call finds
add_shot(table, shot_data) ==
    Append(table, [shot_id |-> Len(table) + 1,
                   game_id |-> shot_data.game_id,
                   player_id |-> shot_data.player_id,
                   shot_type |-> shot_data.shot_type,
                   shot_quality |-> shot_data.quality,
                   made |-> shot_data.made])

\* ROUND(x, 1) of the exact value x = n * 100.0 / d, n >= 0 and d > 0, in
\* tenths: the nearest tenth, a half rounding away from zero
sql_round_1(n, d) == (2 * n * 1000 + d) \div (2 * d)

\* ORDER BY p.player_name, s.shot_type: the position of the names and of the
\* shot types of this model in the ascending order of the column
NameOrder == <<"Ann", "Bob">>
ShotTypeOrder == <<"2PT", "3PT">>
PositionIn(order, x) == CHOOSE i \in 1..Len(order) : order[i] = x

\* the shots the query reads: FROM shots s JOIN players p ON s.player_id =
\* p.player_id, with WHERE s.game_id = :game_id added "if game_id:"
joined_shots(game_id) ==
    {i \in 1..Len(shots) :
        /\ \E k \in 1..Len(players) : players[k].player_id = shots[i].player_id
        /\ game_id # None => shots[i].game_id = game_id}

get_player_shooting_stats_ByPlayerAndType(game_id) ==
    LET scope == joined_shots(game_id)
        group(i) == {j \in scope : /\ shots[j].player_id = shots[i].player_id
                                   /\ shots[j].shot_type = shots[i].shot_type}
        p(i) == players[CHOOSE k \in 1..Len(players) :
                            players[k].player_id = shots[i].player_id]
        row(i) == [player_name |-> p(i).player_name,
                   jersey_number |-> p(i).jersey_number,
                   shot_type |-> shots[i].shot_type,
                   shot_quality |-> shots[i].shot_quality,
                   attempts |-> Cardinality(group(i)),
                   makes |-> Cardinality({j \in group(i) : shots[j].made}),
                   fg_pct |-> sql_round_1(
                       Cardinality({j \in group(i) : shots[j].made}),
                       Cardinality(group(i)))]
        rows == {row(i) : i \in scope}
    IN OrderByDesc(rows, [r \in rows |->
                            0 - (10 * PositionIn(NameOrder, r.player_name)
                                 + PositionIn(ShotTypeOrder, r.shot_type))])

\* SELECT p.player_name, p.jersey_number, s.shot_type, s.shot_quality,
\*        COUNT(*) as attempts, SUM(CASE WHEN s.made THEN 1 ELSE 0 END) as makes,
\*        ROUND(SUM(CASE WHEN s.made THEN 1 ELSE 0 END) * 100.0 / COUNT(*), 1)
\* ... GROUP BY p.player_id, s.shot_type, s.shot_quality
\*     ORDER BY p.player_name, s.shot_type
\* fg_pct is held in tenths of a percent.
get_player_shooting_stats(game_id) ==
    LET scope == joined_shots(game_id)
        group(i) == {j \in scope : /\ shots[j].player_id = shots[i].player_id
                                   /\ shots[j].shot_type = shots[i].shot_type
                                   /\ shots[j].shot_quality = shots[i].shot_quality}
        p(i) == players[CHOOSE k \in 1..Len(players) :
                            players[k].player_id = shots[i].player_id]
        row(i) == [player_name |-> p(i).player_name,
                   jersey_number |-> p(i).jersey_number,
                   shot_type |-> shots[i].shot_type,
                   shot_quality |-> shots[i].shot_quality,
                   attempts |-> Cardinality(group(i)),
                   makes |-> Cardinality({j \in group(i) : shots[j].made}),
                   fg_pct |-> sql_round_1(
                       Cardinality({j \in group(i) : shots[j].made}),
                       Cardinality(group(i)))]
        rows == {row(i) : i \in scope}
    IN OrderByDesc(rows, [r \in rows |->
                            0 - (10 * PositionIn(NameOrder, r.player_name)
                                 + PositionIn(ShotTypeOrder, r.shot_type))])

ShotData(game_id, player_id, shot_type, quality, made) ==
    [game_id |-> game_id, player_id |-> player_id, shot_type |-> shot_type,
     quality |-> quality, made |-> made]

\* the shot_data dicts passed to add_shot: a made shot, and the shots that
\* differ from it in the result, the player, the type, the quality, the game
\* and in the player being one without a players row
ShotArgs ==
    {ShotData(1, 1, "2PT", "Open", TRUE),
     ShotData(1, 1, "2PT", "Open", FALSE),
     ShotData(1, 2, "2PT", "Open", TRUE),
     ShotData(1, 1, "3PT", "Open", TRUE),
     ShotData(1, 1, "2PT", "Contested", FALSE),
     ShotData(2, 1, "2PT", "Open", TRUE),
     ShotData(1, 3, "2PT", "Open", TRUE)}

RECURSIVE shots_after(_)
\* the shots table after add_shot was called with each element of calls
shots_after(calls) ==
    IF calls = <<>> THEN <<>>
    ELSE add_shot(shots_after(SubSeq(calls, 1, Len(calls) - 1)),
                  calls[Len(calls)])

\* five Open 2PT attempts of player 1 in game 1, three of them made
ExampleShotCalls ==
    <<ShotData(1, 1, "2PT", "Open", TRUE), ShotData(1, 1, "2PT", "Open", FALSE),
      ShotData(1, 1, "2PT", "Open", TRUE), ShotData(1, 1, "2PT", "Open", FALSE),
      ShotData(1, 1, "2PT", "Open", TRUE)>>

ShotTables ==
    {shots_after(calls) :
       calls \in UNION {[1..n -> ShotArgs] : n \in 0..MaxShots}
                 \cup {ExampleShotCalls}}

\* two players of team 1 and a shots table
InitShots ==
    /\ teams = <<>>
    /\ players = <<[player_id |-> 1, team_id |-> 1, player_name |-> "Ann",
                    jersey_number |-> "7"],
                   [player_id |-> 2, team_id |-> 1, player_name |-> "Bob",
                    jersey_number |-> "9"]>>
    /\ games = <<>>
    /\ possessions = <<>>
    /\ player_game_stats = <<>>
    /\ session_team_id = None
    /\ sessions = 0
    /\ call_log = <<>>
    /\ stats_df = <<>>
    /\ display_df = <<>>
    /\ shown = FALSE
    /\ detailed_possessions = <<>>
    /\ shots \in ShotTables
    /\ analysis = NoCall
    /\ last_write = NoCall
    /\ last_read = NoCall
    /\ last_score = NoCall

\* one call of get_player_shooting_stats, game_id=None being the default
CallShootingStats ==
    /\ \E game_id \in {None} \cup GameIdArgs :
         \E df \in get_player_shooting_stats(game_id) :
           analysis' = [op |-> "get_player_shooting_stats",
                        game_id |-> game_id, df |-> df]
    /\ UNCHANGED <<db_vars, session_team_id, sessions, call_log, calc_vars,
                   detailed_possessions, shots, last_write, last_read, last_score>>

NextShots == CallShootingStats

SpecShots == InitShots /\ [][NextShots]_vars

----------------------------------------------------------------------------
(* Stored lineups: direct add_possession and add_detailed_possession calls *)
(* and the lineup performance query                                        *)

\* INSERT INTO detailed_possessions (game_id, ..., time_elapsed_seconds,
\* lineup, ..., outcome, points_scored, ...); the classifier columns, which
\* no query of this model reads, are left out
add_detailed_possession(possession_data) ==
    Append(detailed_possessions,
           [possession_id |-> Len(detailed_possessions) + 1,
            game_id |-> possession_data["game_id"],
            time_elapsed_seconds |-> possession_data["time_elapsed"],
            lineup |-> json_dumps(possession_data["lineup"]),
            outcome |-> dict_get(possession_data, "outcome", NoneStr),
            points_scored |-> dict_get(possession_data, "points_scored", 0)])

\* SELECT * FROM detailed_possessions WHERE game_id = :game_id
\* ORDER BY time_elapsed_seconds
get_detailed_possessions(game_id) ==
    LET rows == {r \in Range(detailed_possessions) : r.game_id = game_id}
    IN OrderByDesc(rows, [r \in rows |-> 0 - r.time_elapsed_seconds])

\* the detailed possessions the query reads: WHERE 1=1, with
\* AND game_id = :game_id added "if game_id:"
lineup_scope(game_id) ==
    {i \in 1..Len(detailed_possessions) :
        game_id # None => detailed_possessions[i].game_id = game_id}

RECURSIVE sum_points(_)
\* SUM(points_scored) over the rows at the positions in S
sum_points(S) ==
    IF S = {} THEN 0
    ELSE LET i == CHOOSE x \in S : TRUE
         IN detailed_possessions[i].points_scored + sum_points(S \ {i})

\* the text of the ids of a stored lineup in increasing order
normalized(text) ==
    LET ids == CHOOSE l \in {<<1, 2, 3, 4, 5>>, <<5, 4, 3, 2, 1>>} :
                  json_dumps(l) = text
    IN json_dumps_Sorted(ids)

get_lineup_performance_Normalized(game_id) ==
    LET scope == lineup_scope(game_id)
        group(i) == {j \in scope : normalized(detailed_possessions[j].lineup)
                                     = normalized(detailed_possessions[i].lineup)}
        row(i) == [lineup |-> normalized(detailed_possessions[i].lineup),
                   possessions |-> Cardinality(group(i)),
                   scores |-> Cardinality({j \in group(i) :
                                detailed_possessions[j].outcome = "SCORE"}),
                   total_points |-> sum_points(group(i))]
        rows == {row(i) : i \in scope}
    IN OrderByDesc(rows, [r \in rows |-> r.total_points])

\* SELECT lineup, COUNT(*) as possessions,
\*        SUM(CASE WHEN outcome = 'SCORE' THEN 1 ELSE 0 END) as scores,
\*        SUM(points_scored) as total_points
\* FROM detailed_possessions WHERE 1=1 [AND game_id = :game_id]
\* GROUP BY lineup ORDER BY total_points DESC
get_lineup_performance(game_id) ==
    LET scope == lineup_scope(game_id)
        group(i) == {j \in scope : detailed_possessions[j].lineup
                                     = detailed_possessions[i].lineup}
        row(i) == [lineup |-> detailed_possessions[i].lineup,
                   possessions |-> Cardinality(group(i)),
                   scores |-> Cardinality({j \in group(i) :
                                detailed_possessions[j].outcome = "SCORE"}),
                   total_points |-> sum_points(group(i))]
        rows == {row(i) : i \in scope}
    IN OrderByDesc(rows, [r \in rows |-> r.total_points])

\* players_on_court arguments: ids out of order, an id twice, one two-digit
\* id and the two one-digit ids it is written with
CourtArgs == {<<2, 1>>, <<1, 1>>, <<12>>, <<1, 2>>}

\* possession_data arguments: the same five ids in two orders, with and
\* without the points_scored key, in two games
DetailedArgs ==
    {[game_id |-> 1, time_elapsed |-> 10, lineup |-> <<1, 2, 3, 4, 5>>,
      outcome |-> "SCORE", points_scored |-> 2],
     [game_id |-> 1, time_elapsed |-> 10, lineup |-> <<5, 4, 3, 2, 1>>,
      outcome |-> "SCORE", points_scored |-> 3],
     [game_id |-> 1, time_elapsed |-> 20, lineup |-> <<1, 2, 3, 4, 5>>,
      outcome |-> "MISS"],
     [game_id |-> 2, time_elapsed |-> 20, lineup |-> <<1, 2, 3, 4, 5>>,
      outcome |-> "SCORE", points_scored |-> 2]}

\* one direct call of add_possession; call_log keeps the list it was given
CallAddPossession ==
    /\ Len(call_log) < MaxLineupCalls
    /\ \E game_id \in GameIdArgs, players_on_court \in CourtArgs :
         /\ possessions' = add_possession(game_id, "GOOD", NoneStr,
                                          players_on_court)
         /\ call_log' = Append(call_log,
                               [op |-> "add_possession", game_id |-> game_id,
                                ids |-> players_on_court,
                                row |-> Len(possessions) + 1])
    /\ analysis' = NoCall
    /\ UNCHANGED <<teams, players, games, player_game_stats, session_team_id,
                   sessions, calc_vars, detailed_possessions, shots,
                   last_write, last_read, last_score>>

\* one direct call of add_detailed_possession
CallAddDetailedPossession ==
    /\ Len(call_log) < MaxLineupCalls
    /\ \E possession_data \in DetailedArgs :
         /\ detailed_possessions' = add_detailed_possession(possession_data)
         /\ call_log' = Append(call_log,
                               [op |-> "add_detailed_possession",
                                game_id |-> possession_data["game_id"],
                                ids |-> possession_data["lineup"],
                                row |-> Len(detailed_possessions) + 1])
    /\ analysis' = NoCall
    /\ UNCHANGED <<db_vars, session_team_id, sessions, calc_vars, shots,
                   last_write, last_read, last_score>>

\* one call of get_lineup_performance, game_id=None being the default; the
\* result is kept until the next write
CallLineupPerformance ==
    /\ \E game_id \in {None} \cup GameIdArgs :
         \E df \in get_lineup_performance(game_id) :
           analysis' = [op |-> "get_lineup_performance", game_id |-> game_id,
                        df |-> df]
    /\ UNCHANGED <<db_vars, session_team_id, sessions, call_log, calc_vars,
                   detailed_possessions, shots, last_write, last_read, last_score>>

NextLineups ==
    \/ CallAddPossession
    \/ CallAddDetailedPossession
    \/ CallLineupPerformance

SpecLineups == Init /\ [][NextLineups]_vars

----------------------------------------------------------------------------
(* Storage errors: every statement is either carried out or rejected by    *)
(* the backend, whose answer is an input of the call                       *)

update_game_score_AllGames(game_id, score_us, score_them) ==
    [i \in 1..Len(games) |->
        [games[i] EXCEPT !.final_score_us = score_us,
                         !.final_score_them = score_them]]

update_game_score_NoDecrease(game_id, score_us, score_them) ==
    [i \in 1..Len(games) |->
        IF /\ games[i].game_id = game_id
           /\ score_us >= games[i].final_score_us
           /\ score_them >= games[i].final_score_them
        THEN [games[i] EXCEPT !.final_score_us = score_us,
                              !.final_score_them = score_them]
        ELSE games[i]]

\* UPDATE games SET final_score_us = :score_us, final_score_them = :score_them
\* WHERE game_id = :game_id
update_game_score(game_id, score_us, score_them) ==
    [i \in 1..Len(games) |->
        IF games[i].game_id = game_id
        THEN [games[i] EXCEPT !.final_score_us = score_us,
                              !.final_score_them = score_them]
        ELSE games[i]]

execute_query_Retry(rejected, committed) ==
    [raised |-> FALSE, attempts |-> IF rejected THEN 2 ELSE 1,
     tables |-> committed]

\* with engine.connect() as conn: conn.execute(...); conn.commit(), no
\* try/except: a rejected statement raises out of the call before the commit.
\* committed is the value of the tables once the statement is committed.
execute_query(rejected, committed) ==
    IF rejected
    THEN [raised |-> TRUE, attempts |-> 1, tables |-> db_vars]
    ELSE [raised |-> FALSE, attempts |-> 1, tables |-> committed]

\* the same, returning result.lastrowid
insert_and_get_id(rejected, committed) == execute_query(rejected, committed)

\* pd.read_sql(text(query), engine, params=params), no try/except
fetch_dataframe(failed, result) ==
    IF failed THEN [raised |-> TRUE] ELSE [raised |-> FALSE, df |-> result]

\* pd.DataFrame(): no columns, no rows
pd_DataFrame == [columns |-> <<>>, rows |-> <<>>]

\* df.empty: an axis of length 0
df_empty(df) == Len(df.columns) = 0 \/ Len(df.rows) = 0

\* try: return conn.query(query, ttl=ttl)
\* except Exception as e: st.error(...); st.code(query); return pd.DataFrame()
query_db(failed, result) ==
    IF failed THEN [raised |-> FALSE, df |-> pd_DataFrame]
    ELSE [raised |-> FALSE, df |-> result]

\* the rows stored in all tables
TotalRows ==
    Len(teams) + Len(players) + Len(games) + Len(possessions)
    + Len(player_game_stats)

\* the call op ended with result res: the tables and the record of the call
StorageWrite(op, rejected, res) ==
    /\ teams' = res.tables[1]
    /\ players' = res.tables[2]
    /\ games' = res.tables[3]
    /\ possessions' = res.tables[4]
    /\ player_game_stats' = res.tables[5]
    /\ last_write' = [op |-> op, rejected |-> rejected, raised |-> res.raised,
                      attempts |-> res.attempts, before |-> db_vars]
    /\ UNCHANGED <<session_team_id, sessions, call_log, calc_vars,
                   detailed_possessions, shots, analysis, last_read, last_score>>

TryCreateTeam ==
    /\ TotalRows < MaxStored
    /\ \E rejected \in BOOLEAN, ts \in ClockReads :
         StorageWrite("create_team", rejected,
            insert_and_get_id(rejected,
               <<create_team(ts), players, games, possessions,
                 player_game_stats>>))

TryAddPlayer ==
    /\ TotalRows < MaxStored
    /\ \E rejected \in BOOLEAN :
         StorageWrite("add_player", rejected,
            insert_and_get_id(rejected,
               <<teams, add_player(1, "Ann", "7"), games, possessions,
                 player_game_stats>>))

TryCreateGame ==
    /\ TotalRows < MaxStored
    /\ \E rejected \in BOOLEAN, ts \in ClockReads :
         StorageWrite("create_game", rejected,
            insert_and_get_id(rejected,
               <<teams, players, create_game(1, Today, "Lions", ts), possessions,
                 player_game_stats>>))

TryAddPossession ==
    /\ TotalRows < MaxStored
    /\ \E rejected \in BOOLEAN :
         StorageWrite("add_possession", rejected,
            execute_query(rejected,
               <<teams, players, games,
                 add_possession(1, "FAILED", "Turnover", <<1, 2>>),
                 player_game_stats>>))

TryUpsertPlayerStats ==
    /\ TotalRows < MaxStored
    /\ \E rejected \in BOOLEAN, points \in 1..2 :
         StorageWrite("upsert_player_stats", rejected,
            execute_query(rejected,
               <<teams, players, games, possessions,
                 upsert_player_stats(1, 1, [points |-> points])>>))

TryUpdateGameScore ==
    \E rejected \in BOOLEAN :
       StorageWrite("update_game_score", rejected,
          execute_query(rejected,
             <<teams, players, update_game_score(1, 2, 1), possessions,
               player_game_stats>>))

TryCompleteGame ==
    \E rejected \in BOOLEAN :
       StorageWrite("complete_game", rejected,
          execute_query(rejected,
             <<teams, players, complete_game(1), possessions,
               player_game_stats>>))

\* a record accessor's read, here get_teams
TryGetTeams ==
    /\ \E failed \in BOOLEAN, result \in get_teams :
         LET res == fetch_dataframe(failed, result)
         IN last_read' = [op |-> "get_teams", failed |-> failed,
                          raised |-> res.raised,
                          message |-> IF res.raised THEN "exception"
                                      ELSE IF Len(res.df) = 0 THEN "no rows"
                                      ELSE "rows"]
    /\ UNCHANGED <<db_vars, session_team_id, sessions, call_log, calc_vars,
                   detailed_possessions, shots, analysis, last_write, last_score>>

\* what SHOW TABLES can return: nothing before the schema script has run
ShowTablesResults ==
    {[columns |-> <<"Tables_in_db">>, rows |-> <<>>],
     [columns |-> <<"Tables_in_db">>, rows |-> <<"games", "teams">>]}

\* "List Tables" of the connection test page:
\*   df = query_db("SHOW TABLES", ttl=0)
\*   if not df.empty: st.success(f"Found {len(df)} tables")
\*   else: st.warning("No tables found - database may be empty")
\*   except Exception: st.error("Failed to list tables")
ListTables ==
    /\ \E failed \in BOOLEAN, result \in ShowTablesResults :
         LET res == query_db(failed, result)
         IN last_read' = [op |-> "query_db", failed |-> failed,
                          raised |-> res.raised,
                          message |-> IF res.raised THEN "exception"
                                      ELSE IF df_empty(res.df) THEN "no rows"
                                      ELSE "rows"]
    /\ UNCHANGED <<db_vars, session_team_id, sessions, call_log, calc_vars,
                   detailed_possessions, shots, analysis, last_write, last_score>>

NextStorage ==
    \/ TryCreateTeam
    \/ TryAddPlayer
    \/ TryCreateGame
    \/ TryAddPossession
    \/ TryUpsertPlayerStats
    \/ TryUpdateGameScore
    \/ TryCompleteGame
    \/ TryGetTeams
    \/ ListTables

SpecStorage == Init /\ [][NextStorage]_vars

----------------------------------------------------------------------------
(* Scores and completion: the tracker page's score inputs and End Game,    *)
(* and direct calls of update_game_score and complete_game                 *)

\* st.number_input(label, value=value, min_value=min_value, step=1) when the
\* user types entry: the values the widget can return.  An entry below
\* min_value is not returned: the widget keeps its value or clamps to
\* min_value.
number_input(value, min_value, entry) ==
    IF entry >= min_value THEN {entry} ELSE {value, min_value}

\* st.number_input raises when value < min_value, which ends the script run
\* at the score inputs, before any widget below them
score_inputs_render(active_game) ==
    active_game.final_score_us >= 0 /\ active_game.final_score_them >= 0

\* what the user types into "Our Score" and "Their Score"
ScoreEntries == {<<2, 1>>, <<1, 1>>, <<-1, 1>>}

\* arguments of a direct update_game_score call
ScoreArgs == {<<-1, 0>>, <<1, 2>>, <<0, 0>>}

\* Game Tracker with an active game: the score inputs;
\* if our_score != stored or their_score != stored: update_game_score(...)
UpdateScoreFrom(entries) ==
    /\ session_team_id # None
    /\ \E active_game \in get_active_game(session_team_id) :
         /\ Len(active_game) = 1
         /\ score_inputs_render(active_game[1])
         /\ \E entry \in entries :
              \E our_score \in number_input(active_game[1].final_score_us, 0,
                                            entry[1]),
                 their_score \in number_input(active_game[1].final_score_them,
                                              0, entry[2]) :
                /\ IF \/ our_score # active_game[1].final_score_us
                      \/ their_score # active_game[1].final_score_them
                   THEN games' = update_game_score(active_game[1].game_id,
                                                   our_score, their_score)
                   ELSE UNCHANGED games
                /\ last_score' = [op |-> "score inputs",
                                  game_id |-> active_game[1].game_id,
                                  entered |-> entry,
                                  returned |-> <<our_score, their_score>>,
                                  called |->
                                    (\/ our_score # active_game[1].final_score_us
                                     \/ their_score
                                          # active_game[1].final_score_them),
                                  before |-> <<active_game[1].final_score_us,
                                               active_game[1].final_score_them>>]
    /\ UNCHANGED <<teams, players, possessions, player_game_stats,
                   session_team_id, sessions, call_log, calc_vars,
                   detailed_possessions, shots, analysis, last_write, last_read>>

UpdateScore == UpdateScoreFrom(ScoreEntries)

\* Game Tracker with an active game whose score inputs rendered: End Game
EndScoredGame ==
    /\ session_team_id # None
    /\ \E active_game \in get_active_game(session_team_id) :
         /\ Len(active_game) = 1
         /\ score_inputs_render(active_game[1])
         /\ games' = complete_game(active_game[1].game_id)
    /\ UNCHANGED <<teams, players, possessions, player_game_stats,
                   session_team_id, sessions, call_log, calc_vars, ext_vars>>

\* a direct call of update_game_score for a stored game, completed or not
CallUpdateGameScore ==
    /\ \E game_id \in 1..Len(games), args \in ScoreArgs :
         /\ games' = update_game_score(game_id, args[1], args[2])
         /\ last_score' = [op |-> "update_game_score", game_id |-> game_id,
                           entered |-> args, returned |-> args,
                           called |-> TRUE,
                           before |-> <<games[game_id].final_score_us,
                                        games[game_id].final_score_them>>]
    /\ UNCHANGED <<teams, players, possessions, player_game_stats,
                   session_team_id, sessions, call_log, calc_vars,
                   detailed_possessions, shots, analysis, last_write, last_read>>

\* a direct call of complete_game for a stored game, completed or not
CallCompleteStoredGame ==
    /\ \E game_id \in 1..Len(games) : games' = complete_game(game_id)
    /\ UNCHANGED <<teams, players, possessions, player_game_stats,
                   session_team_id, sessions, call_log, calc_vars, ext_vars>>

NextScores ==
    \/ Startup
    \/ StartGame
    \/ UpdateScore
    \/ EndScoredGame
    \/ CallUpdateGameScore
    \/ CallCompleteStoredGame

SpecScores == Init /\ [][NextScores]_vars

----------------------------------------------------------------------------
(* The lineup selection of the tracker page and the possessions stored     *)
(* with it                                                                 *)

\* lineup_cols = st.columns(5): the "Player 1" .. "Player 5" selectboxes
LineupSlots == 5

\* an option text is the sequence of its parts: the first option, "None"
NoneOption == <<NoneStr>>

\* f"{row['jersey_number']} - {row['player_name']}"
player_label(row) == <<row.jersey_number, " - ", row.player_name>>

\* player_options = ["None"] + [the label of every row of players_df]
player_options(players_df) ==
    {NoneOption} \cup {player_label(players_df[k]) : k \in 1..Len(players_df)}

\* players_df[players_df.apply(label == selected)]['player_id'].iloc[0]:
\* the id of the first row with the selected label
player_id_of(players_df, selected) ==
    players_df[CHOOSE k \in 1..Len(players_df) :
                  /\ player_label(players_df[k]) = selected
                  /\ \A j \in 1..(k - 1) :
                        player_label(players_df[j]) # selected].player_id

RECURSIVE selected_players(_, _, _)
\* the list built by the loop over the first n selectboxes: the player id
\* of every box not left at "None", in the order of the boxes
selected_players(players_df, selection, n) ==
    IF n = 0 THEN <<>>
    ELSE LET before == selected_players(players_df, selection, n - 1)
         IN IF selection[n] # NoneOption
            THEN Append(before, player_id_of(players_df, selection[n]))
            ELSE before

\* Game Tracker with an active game and a non-empty roster: the selectboxes
\* are set and the GOOD button stores the possession with the lineup
TrackWithLineup ==
    /\ session_team_id # None
    /\ Len(possessions) < MaxPoss
    /\ \E active_game \in get_active_game(session_team_id) :
         /\ Len(active_game) = 1
         /\ LET players_df == get_players(session_team_id)
            IN /\ Len(players_df) > 0
               /\ \E selection \in [1..LineupSlots -> player_options(players_df)] :
                    possessions' =
                       add_possession(active_game[1].game_id, "GOOD", NoneStr,
                          selected_players(players_df, selection, LineupSlots))
    /\ UNCHANGED <<teams, players, games, player_game_stats,
                   session_team_id, sessions, call_log, calc_vars, ext_vars>>

NextCourt ==
    \/ Startup
    \/ AddPlayer
    \/ StartGame
    \/ TrackWithLineup

SpecCourt == Init /\ [][NextCourt]_vars

----------------------------------------------------------------------------
(* The tracker page as a whole: roster, Start Game, score inputs,          *)
(* possession button, Quick Player Stats Entry, End Game                   *)

\* the number inputs of the stats form
FormFields == {"points", "assists", "rebounds", "turnovers", "steals",
               "blocks", "fouls", "minutes"}

\* existing_stats[existing_stats['player_id'] == selected_player_id]
\* if not existing_stats.empty else pd.DataFrame()
player_existing(existing_stats, selected_player_id) ==
    SelectSeq(existing_stats, LAMBDA r : r.player_id = selected_player_id)

\* the value= of every number input:
\* int(player_existing[col].iloc[0]) if not player_existing.empty else 0,
\* Rebounds being rebounds_offensive + rebounds_defensive
form_values(existing) ==
    IF Len(existing) = 0 THEN [f \in FormFields |-> 0]
    ELSE [points |-> existing[1].points,
          assists |-> existing[1].assists,
          rebounds |-> existing[1].rebounds_offensive
                       + existing[1].rebounds_defensive,
          turnovers |-> existing[1].turnovers,
          steals |-> existing[1].steals,
          blocks |-> existing[1].blocks,
          fouls |-> existing[1].fouls,
          minutes |-> existing[1].minutes_played]

form_stats_AllOffensive(form) ==
    [minutes |-> form.minutes, points |-> form.points,
     assists |-> form.assists,
     rebounds_offensive |-> form.rebounds,
     rebounds_defensive |-> form.rebounds - form.rebounds,
     turnovers |-> form.turnovers, steals |-> form.steals,
     blocks |-> form.blocks, fouls |-> form.fouls]

\* stats = {'minutes': minutes, ..., 'rebounds_offensive': rebounds // 2,
\*          'rebounds_defensive': rebounds - (rebounds // 2), ...}
form_stats(form) ==
    [minutes |-> form.minutes, points |-> form.points,
     assists |-> form.assists,
     rebounds_offensive |-> form.rebounds \div 2,
     rebounds_defensive |-> form.rebounds - (form.rebounds \div 2),
     turnovers |-> form.turnovers, steals |-> form.steals,
     blocks |-> form.blocks, fouls |-> form.fouls]

\* what the user types into the form before saving: nothing, an odd number
\* of rebounds, or an even number of rebounds with other stats.  Every
\* entry is within the inputs' min_value=0 (and max_value=40 for Minutes).
FormEdits ==
    {<<>>,
     [rebounds |-> 3],
     [rebounds |-> 2, points |-> 1, fouls |-> 1, minutes |-> 1]}

\* the form after the user's entries
edited_form(values, edit) ==
    [f \in FormFields |-> IF f \in DOMAIN edit THEN edit[f] ELSE values[f]]

\* Game Tracker with an active game and a non-empty roster: a player is
\* selected, the form is filled in and Save Player Stats is pressed
SaveStatsFrom(edits) ==
    /\ session_team_id # None
    /\ \E active_game \in get_active_game(session_team_id) :
         /\ Len(active_game) = 1
         /\ score_inputs_render(active_game[1])
         /\ LET players_df == get_players(session_team_id)
                game_id == active_game[1].game_id
            IN /\ Len(players_df) > 0
               /\ \E stat_player \in player_options(players_df) \ {NoneOption},
                     edit \in edits :
                    LET selected_player_id == player_id_of(players_df, stat_player)
                        existing == player_existing(get_player_stats(game_id),
                                                    selected_player_id)
                        form == edited_form(form_values(existing), edit)
                    IN /\ player_game_stats' =
                            upsert_player_stats(game_id, selected_player_id,
                                                form_stats(form))
                       /\ last_write' =
                            [op |-> "Save Player Stats", game_id |-> game_id,
                             player_id |-> selected_player_id,
                             rebounds |-> form.rebounds,
                             resaved |-> (Len(existing) > 0 /\ edit = <<>>)]
    /\ UNCHANGED <<teams, players, games, possessions, session_team_id,
                   sessions, call_log, calc_vars, detailed_possessions, shots,
                   analysis, last_read, last_score>>

SaveStats == SaveStatsFrom(FormEdits)

\* the state Startup and Manage Players leave: one team, the session
\* resolved to it, one player on the roster
InitTracker ==
    /\ teams = <<[team_id |-> 1, created_at |-> 0]>>
    /\ players = <<[player_id |-> 1, team_id |-> 1, player_name |-> "Ann",
                    jersey_number |-> "7"]>>
    /\ games = <<>>
    /\ possessions = <<>>
    /\ player_game_stats = <<>>
    /\ session_team_id = 1
    /\ sessions = 1
    /\ call_log = <<>>
    /\ stats_df = <<>>
    /\ display_df = <<>>
    /\ shown = FALSE
    /\ InitExt

\* one score entry and one set of form entries
TrackerUpdateScore == UpdateScoreFrom({<<1, 0>>})

TrackerSaveStats == SaveStatsFrom({<<>>, [rebounds |-> 3, points |-> 1]})

NextTracker ==
    \/ StartGame
    \/ TrackerUpdateScore
    \/ TrackGood
    \/ TrackerSaveStats
    \/ EndScoredGame

SpecTracker == InitTracker /\ [][NextTracker]_vars

----------------------------------------------------------------------------
(* The stats form on its own: games are started and ended, stats are saved *)
(* with every entry of FormEdits                                           *)

NextStatsForm ==
    \/ StartGame
    \/ SaveStats
    \/ EndScoredGame

SpecStatsForm == InitTracker /\ [][NextStatsForm]_vars

----------------------------------------------------------------------------
(* C1: after any sequence of upsert_player_stats calls the table holds at  *)
(* most one row per (game_id, player_id); the row of a pair exists exactly *)
(* when the pair was upserted, and each of its stat columns holds the      *)
(* value the latest call for the pair gave for it, 0 for a key that call's *)
(* dict lacks (nothing is kept from an earlier write).                     *)

CallsFor(g, p) ==
    {n \in 1..Len(call_log) : call_log[n].game_id = g /\ call_log[n].player_id = p}

RowsFor(g, p) ==
    {i \in 1..Len(player_game_stats) :
        player_game_stats[i].game_id = g /\ player_game_stats[i].player_id = p}

C1_UpsertKeepsOneRowWithLatestValues ==
    \A key \in UpsertKeyArgs :
        LET calls == CallsFor(key[1], key[2])
            rows == RowsFor(key[1], key[2])
        IN /\ Cardinality(rows) <= 1
           /\ (calls = {}) <=> (rows = {})
           /\ calls # {} =>
                LET latest == call_log[CHOOSE n \in calls : \A m \in calls : m <= n]
                IN \A i \in rows : \A c \in StatCols :
                     player_game_stats[i][c] =
                        (IF KeyOf(c) \in DOMAIN latest.stats
                         THEN latest.stats[KeyOf(c)] ELSE 0)

\* a second upsert for a pair whose dict lacks a key the first upsert gave a
\* non-zero value for
C1_Witness_SecondUpsertLacksAKey ==
    \E n, m \in 1..Len(call_log) :
        /\ n < m
        /\ call_log[n].game_id = call_log[m].game_id
        /\ call_log[n].player_id = call_log[m].player_id
        /\ \E k \in DOMAIN call_log[n].stats :
             /\ call_log[n].stats[k] > 0
             /\ k \notin DOMAIN call_log[m].stats
        /\ DOMAIN call_log[m].stats # {}

----------------------------------------------------------------------------
(* C3: get_active_game(team_id) returns None exactly when the team has no  *)
(* incomplete game; otherwise it returns one row, an incomplete game of    *)
(* that team whose creation timestamp no other incomplete game of the team *)
(* exceeds.                                                                *)

IncompleteGames(team_id) ==
    {i \in 1..Len(games) : games[i].team_id = team_id /\ ~games[i].game_completed}

C3_ActiveGameIsLatestIncomplete ==
    \A team_id \in TeamIdArgs :
        /\ get_active_game(team_id) # {}
        /\ \A df \in get_active_game(team_id) :
             /\ (Len(df) = 0) <=> (IncompleteGames(team_id) = {})
             /\ Len(df) <= 1
             /\ Len(df) = 1 =>
                  /\ \E i \in IncompleteGames(team_id) : games[i] = df[1]
                  /\ \A i \in IncompleteGames(team_id) :
                       games[i].created_at <= df[1].created_at

\* a team with an older and a newer incomplete game, and a completed game
\* newer than both: the newer incomplete one is returned
C3_Witness_SeveralIncomplete ==
    \E team_id \in TeamIdArgs : \E i, j \in IncompleteGames(team_id) :
        /\ games[i].created_at < games[j].created_at
        /\ \A k \in IncompleteGames(team_id) : games[k].created_at <= games[j].created_at
        /\ get_active_game(team_id) = {<<games[j]>>}
        /\ \E c \in 1..Len(games) : games[c].game_completed

----------------------------------------------------------------------------
(* C2: team resolution creates a team only when none is stored, and every  *)
(* resolution, in the first session or a later one, returns the id of that *)
(* one team: at most one team is ever created by resolution.               *)

C2_ResolutionCreatesOneTeam ==
    /\ Len(teams) <= 1
    /\ sessions > 0 => Len(teams) = 1
    /\ session_team_id # None => /\ Len(teams) = 1
                                 /\ session_team_id = teams[1].team_id

\* the second session has resolved its team
C2_Witness_SecondSessionResolved ==
    sessions = 2 /\ session_team_id # None /\ Len(teams) = 1

----------------------------------------------------------------------------
(* C4: in the page flow every team has at most one game with               *)
(* game_completed = FALSE.                                                 *)

C4_AtMostOneIncompleteGame ==
    \A t \in 1..Len(teams) : Cardinality(IncompleteGames(teams[t].team_id)) <= 1

\* a completed game and, started after it, an active one
C4_Witness_SecondGameActive ==
    \E i, j \in 1..Len(games) :
        i < j /\ games[i].game_completed /\ ~games[j].game_completed

----------------------------------------------------------------------------
(* C5: a stored possession has a failure type exactly when its outcome is  *)
(* FAILED, and then one of the four failure types.                         *)

C5_FailureTypeIffFailed ==
    \A i \in 1..Len(possessions) :
        /\ possessions[i].outcome \in Outcomes
        /\ possessions[i].outcome = "FAILED" => possessions[i].failure_type \in FailureTypes
        /\ possessions[i].outcome # "FAILED" => possessions[i].failure_type = NoneStr

\* a FAILED possession and a NEUTRAL one are stored
C5_Witness_FailedAndNeutralStored ==
    \E i, j \in 1..Len(possessions) :
        possessions[i].outcome = "FAILED" /\ possessions[j].outcome = "NEUTRAL"

----------------------------------------------------------------------------
(* C6: for every non-empty possession set the live summary or the          *)
(* analytics page shows, the GOOD, FAILED and NEUTRAL counts add up to the *)
(* total, so efficiency, waste rate and the NEUTRAL share add up to 100.   *)

C6_OutcomeSharesAddUp ==
    \A x \in ShownMetrics :
        LET df == x[1]
            m == x[2]
            neutral == count_outcome(df, "NEUTRAL")
        IN Len(df) > 0 =>
             /\ m.shown
             /\ m.total = Len(df)
             /\ m.good + m.failed + neutral = m.total
             /\ m.efficiency.den = m.total /\ m.waste_rate.den = m.total
             /\ m.efficiency.num + m.waste_rate.num + 100 * neutral = 100 * m.total

\* the live summary of a game with a NEUTRAL and a FAILED possession, after
\* an earlier game was completed
C6_Witness_MixedOutcomesShown ==
    /\ \E df \in LiveSummaryPossessions :
         count_outcome(df, "NEUTRAL") > 0 /\ count_outcome(df, "FAILED") > 0
    /\ AnalyticsPossessions # {}

----------------------------------------------------------------------------
(* C7: efficiency and waste rate are never divided by a zero total: an     *)
(* empty possession set takes the "no data" branch, a non-empty one is     *)
(* divided by its size.                                                    *)

C7_NoDivisionByZeroTotal ==
    \A x \in ShownMetrics :
        LET df == x[1]
            m == x[2]
        IN /\ m.efficiency.error = "" /\ m.waste_rate.error = ""
           /\ (Len(df) = 0) <=> ~m.shown
           /\ m.shown => m.efficiency.den > 0 /\ m.waste_rate.den > 0

\* the tracker page of an active game without possessions, and the analytics
\* of a completed game without possessions
C7_Witness_EmptySetsShown ==
    /\ <<>> \in LiveSummaryPossessions
    /\ <<>> \in AnalyticsPossessions

----------------------------------------------------------------------------
(* C8: every row of the player performance table has                       *)
(* net_impact = points + 2*assists + rebounds + steals - 2*turnovers -     *)
(* fouls of its stat line; blocks and minutes add nothing; the example     *)
(* line gives 16.                                                          *)

InputLine(player_id) ==
    stats_df[CHOOSE i \in 1..Len(stats_df) : stats_df[i].player_id = player_id]

C8_NetImpactFormula ==
    shown =>
      /\ Len(display_df) = Len(stats_df)
      /\ \A k \in 1..Len(display_df) :
           LET r == InputLine(display_df[k].player_id)
           IN display_df[k].net_impact =
                1 * r.points + 2 * r.assists
                + 1 * r.rebounds_offensive + 1 * r.rebounds_defensive
                + 1 * r.steals - 2 * r.turnovers - 1 * r.fouls
                + 0 * r.blocks + 0 * r.minutes_played
      /\ stats_df = <<ExampleLine>> => display_df[1].net_impact = 16

\* the table of the example line is on screen
C8_Witness_ExampleShown ==
    shown /\ stats_df = <<ExampleLine>> /\ display_df[1].net_impact = 16

----------------------------------------------------------------------------
(* C9: a stat line with minutes_played = 0 has its net_impact_per_10       *)
(* reported as no data: no division by zero, no infinite or NaN value.     *)

C9_ZeroMinutesGiveNoData ==
    shown =>
      \A k \in 1..Len(display_df) :
         display_df[k].minutes_played = 0 =>
            display_df[k].net_impact_per_10.kind \notin {"inf", "-inf", "NaN"}

----------------------------------------------------------------------------
(* C10: the player performance table is in descending order of net_impact: *)
(* each row's net_impact is at least that of the row below it.             *)

C10_TableSortedByNetImpact ==
    shown =>
      /\ Len(display_df) = Len(stats_df)
      /\ \A k \in 1..Len(display_df) :
           k < Len(display_df) =>
              display_df[k].net_impact >= display_df[k + 1].net_impact

\* a table whose stat lines came in ascending order of net impact
C10_Witness_ReorderedTable ==
    /\ shown
    /\ Len(stats_df) >= 2
    /\ net_impact(stats_df[1]) < net_impact(stats_df[2])
    /\ display_df[1].net_impact > display_df[Len(display_df)].net_impact

----------------------------------------------------------------------------
(* C11: get_constraint_analysis(game_id) returns one row for each failure  *)
(* reason among that game's FAILED possessions and no other row, each with *)
(* the number of those possessions, in non-increasing order of count; the  *)
(* surfaced constraint is the first row and no row has a greater count.    *)
(* The example possessions give Turnover: 2, Shot_Selection: 1.            *)

FailedWith(game_id, t) ==
    {i \in 1..Len(possessions) :
        /\ possessions[i].game_id = game_id
        /\ possessions[i].outcome = "FAILED"
        /\ possessions[i].failure_type = t}

C11_ConstraintAnalysisRanksFailureReasons ==
    analysis.op = "get_constraint_analysis" =>
      LET df == analysis.df
          g == analysis.game_id
      IN /\ \A t \in FailureTypes \cup {NoneStr} :
              LET at == {k \in 1..Len(df) : df[k].failure_type = t}
              IN /\ Cardinality(at) = (IF FailedWith(g, t) = {} THEN 0 ELSE 1)
                 /\ \A k \in at : df[k].count = Cardinality(FailedWith(g, t))
         /\ \A k \in 1..Len(df) : df[k].failure_type \in FailureTypes \cup {NoneStr}
         /\ \A k \in 1..Len(df) : k < Len(df) => df[k].count >= df[k + 1].count
         /\ Len(df) > 0 =>
              /\ surfaced_constraint(df) = df[1].failure_type
              /\ \A k \in 1..Len(df) : df[k].count <= df[1].count
         /\ (possessions = ExamplePossessions /\ g = 1) =>
              /\ df = <<[failure_type |-> "Turnover", count |-> 2],
                        [failure_type |-> "Shot_Selection", count |-> 1]>>
              /\ surfaced_constraint(df) = "Turnover"

\* the example possessions were analysed
C11_Witness_ExampleAnalysed ==
    /\ analysis.op = "get_constraint_analysis"
    /\ possessions = ExamplePossessions
    /\ analysis.game_id = 1
    /\ surfaced_constraint(analysis.df) = "Turnover"

----------------------------------------------------------------------------
(* C16: when failure reasons share the greatest count, every run of the    *)
(* constraint analysis over the same possessions surfaces the same reason. *)

C16_TiedConstraintIsDetermined ==
    \A g \in GameIdArgs :
        Cardinality({surfaced_constraint(df) :
                       df \in {d \in get_constraint_analysis(g) : Len(d) > 0}}) <= 1

----------------------------------------------------------------------------
(* C12: get_player_shooting_stats returns one row for each (player, shot   *)
(* type, shot quality) that has a shot in scope; its attempts is the       *)
(* number of those shots and is at least 1, its makes is the number of     *)
(* them with made = true, so 0 <= makes <= attempts, and fg_pct is         *)
(* makes * 100 / attempts rounded to one decimal: 3 makes of 5 attempts    *)
(* give 60.0. No row has attempts = 0.                                     *)

ShotsOf(game_id, name, shot_type, quality) ==
    {i \in 1..Len(shots) :
        /\ game_id # None => shots[i].game_id = game_id
        /\ \E k \in 1..Len(players) : /\ players[k].player_id = shots[i].player_id
                                      /\ players[k].player_name = name
        /\ shots[i].shot_type = shot_type
        /\ shots[i].shot_quality = quality}

C12_ShootingStatsPerGroup ==
    analysis.op = "get_player_shooting_stats" =>
      LET df == analysis.df
          g == analysis.game_id
      IN /\ \A k \in 1..Len(df) :
              LET grp == ShotsOf(g, df[k].player_name, df[k].shot_type,
                                 df[k].shot_quality)
                  distance == df[k].fg_pct * df[k].attempts - df[k].makes * 1000
              IN /\ df[k].attempts = Cardinality(grp)
                 /\ df[k].attempts >= 1
                 /\ df[k].makes = Cardinality({i \in grp : shots[i].made})
                 /\ 0 <= df[k].makes /\ df[k].makes <= df[k].attempts
                 \* fg_pct is a tenth nearest to makes * 100 / attempts
                 /\ 2 * distance <= df[k].attempts
                 /\ 2 * distance >= 0 - df[k].attempts
                 /\ (df[k].makes = 3 /\ df[k].attempts = 5) => df[k].fg_pct = 600
         /\ \A name \in Range(NameOrder), t \in Range(ShotTypeOrder),
               q \in {"Open", "Contested"} :
              Cardinality({k \in 1..Len(df) : /\ df[k].player_name = name
                                              /\ df[k].shot_type = t
                                              /\ df[k].shot_quality = q})
                = (IF ShotsOf(g, name, t, q) = {} THEN 0 ELSE 1)

\* a group of five attempts with three makes was reported as 60.0
C12_Witness_ThreeOfFive ==
    /\ analysis.op = "get_player_shooting_stats"
    /\ \E k \in 1..Len(analysis.df) :
         /\ analysis.df[k].attempts = 5
         /\ analysis.df[k].makes = 3
         /\ analysis.df[k].fg_pct = 600

----------------------------------------------------------------------------
(* C13: the players_on_court of a possession and the lineup of a detailed  *)
(* possession, written as text by the accessor and decoded from the text   *)
(* the read accessor returns, are the sequence of ids that was passed:     *)
(* same ids, same order, same multiplicity.                                *)

DigitValue(c) == (CHOOSE k \in 1..Len(DigitChars) : DigitChars[k] = c) - 1

RECURSIVE parse_items(_, _, _, _)
\* the ints of the items text from position i on, acc being the ints read
\* so far and cur the int being read (-1 between items)
parse_items(text, i, acc, cur) ==
    IF i > Len(text) THEN (IF cur = -1 THEN acc ELSE Append(acc, cur))
    ELSE IF text[i] = "," THEN parse_items(text, i + 1, Append(acc, cur), -1)
    ELSE IF text[i] = " " THEN parse_items(text, i + 1, acc, cur)
    ELSE parse_items(text, i + 1, acc,
                     (IF cur = -1 THEN 0 ELSE cur) * 10 + DigitValue(text[i]))

\* the list a JSON array of ints denotes
json_loads(text) == parse_items(SubSeq(text, 2, Len(text) - 1), 1, <<>>, -1)

C13_StoredIdsRoundTrip ==
    \A k \in 1..Len(call_log) :
      LET c == call_log[k]
      IN /\ c.op = "add_possession" =>
              /\ \E r \in Range(get_possessions(c.game_id)) :
                    r.possession_id = c.row
              /\ \A r \in Range(get_possessions(c.game_id)) :
                    r.possession_id = c.row =>
                      json_loads(r.players_on_court) = c.ids
         /\ c.op = "add_detailed_possession" =>
              \A df \in get_detailed_possessions(c.game_id) :
                /\ \E r \in Range(df) : r.possession_id = c.row
                /\ \A r \in Range(df) :
                      r.possession_id = c.row => json_loads(r.lineup) = c.ids

\* a list with an id twice, a list out of order and a five-id lineup in
\* decreasing order were stored
C13_Witness_RepeatedAndUnorderedStored ==
    /\ \E k \in 1..Len(call_log) :
         call_log[k].op = "add_possession" /\ call_log[k].ids = <<1, 1>>
    /\ \E k \in 1..Len(call_log) :
         call_log[k].op = "add_possession" /\ call_log[k].ids = <<2, 1>>
    /\ \E k \in 1..Len(call_log) :
         /\ call_log[k].op = "add_detailed_possession"
         /\ call_log[k].ids = <<5, 4, 3, 2, 1>>

----------------------------------------------------------------------------
(* C17: get_lineup_performance has one row for each distinct stored lineup *)
(* sequence among the detailed possessions in scope, holding the number of *)
(* those possessions, the number of them with outcome SCORE and the sum of *)
(* their points_scored; the possession counts add up to the number of      *)
(* detailed possessions in scope, and the same five ids stored in          *)
(* different order are in different rows.                                  *)

RECURSIVE SumOfPossessions(_)
SumOfPossessions(df) ==
    IF df = <<>> THEN 0
    ELSE df[Len(df)].possessions + SumOfPossessions(SubSeq(df, 1, Len(df) - 1))

WithLineup(game_id, ids) ==
    {i \in 1..Len(detailed_possessions) :
        /\ game_id # None => detailed_possessions[i].game_id = game_id
        /\ json_loads(detailed_possessions[i].lineup) = ids}

C17_LineupPerformanceByExactSequence ==
    analysis.op = "get_lineup_performance" =>
      LET df == analysis.df
          g == analysis.game_id
          in_scope == {i \in 1..Len(detailed_possessions) :
                         g # None => detailed_possessions[i].game_id = g}
      IN /\ \A ids \in {d["lineup"] : d \in DetailedArgs} :
              LET at == {k \in 1..Len(df) : json_loads(df[k].lineup) = ids}
              IN /\ Cardinality(at) = (IF WithLineup(g, ids) = {} THEN 0 ELSE 1)
                 /\ \A k \in at :
                      /\ df[k].possessions = Cardinality(WithLineup(g, ids))
                      /\ df[k].scores =
                           Cardinality({i \in WithLineup(g, ids) :
                               detailed_possessions[i].outcome = "SCORE"})
                      /\ df[k].total_points = sum_points(WithLineup(g, ids))
         /\ \A k \in 1..Len(df) :
              json_loads(df[k].lineup) \in {d["lineup"] : d \in DetailedArgs}
         /\ SumOfPossessions(df) = Cardinality(in_scope)
         /\ \A k \in 1..Len(df) : k < Len(df) =>
              df[k].total_points >= df[k + 1].total_points

\* the same five ids were stored in two orders and reported in two rows
C17_Witness_SameIdsTwoRows ==
    /\ analysis.op = "get_lineup_performance"
    /\ \E j, k \in 1..Len(analysis.df) :
         /\ json_loads(analysis.df[j].lineup) = <<1, 2, 3, 4, 5>>
         /\ json_loads(analysis.df[k].lineup) = <<5, 4, 3, 2, 1>>
         /\ analysis.df[j].possessions = 2

----------------------------------------------------------------------------
(* C14: when the backend rejects the write of create_team, add_player,     *)
(* create_game, add_possession, upsert_player_stats, update_game_score or  *)
(* complete_game, the call raises to its caller, the statement was tried   *)
(* once, and the tables are as they were before the call.                  *)

C14_RejectedWriteRaisesAndChangesNothing ==
    (last_write.op # "none" /\ last_write.rejected) =>
        /\ last_write.raised
        /\ last_write.attempts = 1
        /\ db_vars = last_write.before

\* a write was rejected when the tables already held rows that the
\* statement, if carried out, would have changed
C14_Witness_RejectedUpdateOfStoredGame ==
    /\ last_write.op = "update_game_score"
    /\ last_write.rejected
    /\ Len(games) > 0
    /\ games[1].final_score_us = 0

----------------------------------------------------------------------------
(* C15: a read query that fails gives its caller an error outcome, which   *)
(* the caller cannot take for the outcome of a query that returned no rows *)

C15_FailedReadIsAnErrorOutcome ==
    (last_read.op # "none" /\ last_read.failed) =>
        /\ last_read.raised
        /\ last_read.message # "no rows"

----------------------------------------------------------------------------
(* C18, as claimed: no operation that sets a score rejects a value, so the *)
(* game holds what was entered after the score inputs as after a direct    *)
(* call.                                                                   *)

StoredScore(game_id) ==
    <<games[game_id].final_score_us, games[game_id].final_score_them>>

C18_NoScoreEntryIsRejected ==
    last_score.op # "none" => StoredScore(last_score.game_id) = last_score.entered

(* C18, amended: update_game_score stores the integers it is given, be     *)
(* they negative or lower than the stored score.  The score inputs store   *)
(* an entry without a negative value, be it lower than the stored score,   *)
(* and never store a negative value: for a negative entry the field keeps  *)
(* its value or becomes 0.                                                 *)

C18_ScoresDecreaseAndOnlyDirectCallsGoNegative ==
    /\ last_score.op = "update_game_score" =>
          StoredScore(last_score.game_id) = last_score.entered
    /\ last_score.op = "score inputs" =>
          LET stored == StoredScore(last_score.game_id)
          IN \A k \in 1..2 :
                /\ last_score.entered[k] >= 0 => stored[k] = last_score.entered[k]
                /\ last_score.entered[k] < 0 =>
                      stored[k] \in {last_score.before[k], 0}
                /\ stored[k] >= 0

\* the score inputs lowered a stored score, and a direct call had left a
\* negative score in another game
C18_Witness_DecreasedAndNegative ==
    /\ last_score.op = "score inputs"
    /\ StoredScore(last_score.game_id)[1] < last_score.before[1]
    /\ \E i \in 1..Len(games) : games[i].final_score_us < 0

----------------------------------------------------------------------------
(* C20: a completed game stays completed in every step; it is in no result *)
(* of get_active_game and in the result of get_games(completed_only=True). *)

C20_CompletionIsAbsorbing ==
    /\ [](\A i \in 1..Len(games) : games[i].game_completed =>
            /\ \A df \in get_active_game(games[i].team_id) :
                  games[i] \notin Range(df)
            /\ games[i] \in Range(get_games(games[i].team_id, TRUE)))
    /\ [][\A i \in 1..Len(games) : games[i].game_completed =>
            /\ i <= Len(games')
            /\ games'[i].game_id = games[i].game_id
            /\ games'[i].game_completed]_vars

\* a game was completed, its score was then set by a direct call, and a
\* later game of the team is active
C20_Witness_CompletedThenOperatedOn ==
    /\ Len(games) >= 2
    /\ games[1].game_completed
    /\ games[1].final_score_us # 0
    /\ ~games[2].game_completed
    /\ games[2].team_id = games[1].team_id

----------------------------------------------------------------------------
(* C19: the players_on_court stored with a possession recorded through the *)
(* tracker page holds no player id twice, holds at most 5 ids, and every   *)
(* id is that of a player of the current team.                             *)

C19_OnCourtPlayersFormASet ==
    \A i \in 1..Len(possessions) :
       LET ids == json_loads(possessions[i].players_on_court)
       IN /\ \A j, k \in 1..Len(ids) : j # k => ids[j] # ids[k]
          /\ Len(ids) <= LineupSlots
          /\ \A j \in 1..Len(ids) :
                \E r \in Range(players) :
                   r.player_id = ids[j] /\ r.team_id = session_team_id

----------------------------------------------------------------------------
(* The Analytics page, after games tracked on the Game Tracker page        *)

\* the first option of the game selector
AllGamesOption == <<"All Games">>

\* f"{row['game_date']} vs {row['opponent']}"
game_label(row) == <<row.game_date, " vs ", row.opponent>>

\* get_games(team_id, completed_only=True) with its ORDER BY game_date DESC:
\* the tables the query may give, games of one date coming in any order
\* (every game of the model has the date Today)
completed_games_df(team_id) ==
    LET rows == Range(get_games(team_id, TRUE))
    IN OrderByDesc(rows, [r \in rows |-> 0])

\* game_options = ["All Games"] + [the label of every row of games_df]
game_options(games_df) ==
    <<AllGamesOption>> \o [k \in 1..Len(games_df) |-> game_label(games_df[k])]

\* None if selected_game_str == "All Games", else
\* int(games_df.iloc[game_options.index(selected_game_str) - 1]['game_id']):
\* list.index gives the first position of the label
selected_game_id_of(games_df, selected_game_str) ==
    IF selected_game_str = AllGamesOption THEN None
    ELSE LET options == game_options(games_df)
             position == CHOOSE k \in 1..Len(options) :
                            /\ options[k] = selected_game_str
                            /\ \A j \in 1..(k - 1) :
                                  options[j] # selected_game_str
         IN games_df[position - 1].game_id

\* possessions_df: get_possessions(selected_game_id) if selected_game_id,
\* else pd.concat of the possessions of every row of games_df
analytics_possessions_df(games_df, selected_game_id) ==
    IF selected_game_id # None THEN get_possessions(selected_game_id)
    ELSE concat_possessions(games_df)

RECURSIVE concat_player_stats(_)
\* pd.concat of get_player_stats(game_id) over the rows of games_df
concat_player_stats(games_df) ==
    IF Len(games_df) = 0 THEN <<>>
    ELSE get_player_stats(games_df[1].game_id)
         \o concat_player_stats(Tail(games_df))

RECURSIVE column_sum(_, _)
\* 'sum' of one column over the rows of a group
column_sum(df, col) ==
    IF Len(df) = 0 THEN 0 ELSE df[1][col] + column_sum(Tail(df), col)

groupby_sum_Ungrouped(df) ==
    [k \in 1..Len(df) |->
        [player_id |-> df[k].player_id, player_name |-> df[k].player_name,
         jersey_number |-> df[k].jersey_number]
        @@ [c \in StatCols |-> df[k][c]]]

\* df.groupby(['player_id', 'player_name', 'jersey_number'])
\*   .agg({every stat column: 'sum'}).reset_index(): one row for each group
\* key, the groups in the order of their keys
groupby_sum(df) ==
    LET key(r) == <<r.player_id, r.player_name, r.jersey_number>>
        keys == {key(df[k]) : k \in 1..Len(df)}
        group(g) == SelectSeq(df, LAMBDA r : key(r) = g)
        rows == {[player_id |-> g[1], player_name |-> g[2],
                  jersey_number |-> g[3]]
                 @@ [c \in StatCols |-> column_sum(group(g), c)] : g \in keys}
    IN CHOOSE s \in OrderByDesc(rows, [r \in rows |-> 0 - r.player_id]) : TRUE

\* stats_df: get_player_stats(selected_game_id) if selected_game_id, else
\* the concatenated stat lines of every row of games_df, aggregated by
\* player if there are any
analytics_stats_df(games_df, selected_game_id) ==
    IF selected_game_id # None THEN get_player_stats(selected_game_id)
    ELSE LET all_stats == concat_player_stats(games_df)
         IN IF Len(all_stats) > 0 THEN groupby_sum(all_stats) ELSE <<>>

\* the Analytics page: the completed games are read, a game or "All Games"
\* is selected, the possessions and the stat lines in scope are read and
\* the player table is rendered
ViewAnalytics ==
    /\ session_team_id # None
    /\ \E games_df \in completed_games_df(session_team_id) :
         /\ Len(games_df) > 0
         /\ \E selected_game_str \in Range(game_options(games_df)) :
              LET selected_game_id ==
                     selected_game_id_of(games_df, selected_game_str)
                  scoped_stats ==
                     analytics_stats_df(games_df, selected_game_id)
              IN /\ last_read' =
                       [op |-> "Analytics", games_df |-> games_df,
                        game_options |-> game_options(games_df),
                        selected_game_str |-> selected_game_str,
                        selected_game_id |-> selected_game_id,
                        possessions_df |->
                           analytics_possessions_df(games_df, selected_game_id)]
                 /\ stats_df' = scoped_stats
                 /\ IF Len(scoped_stats) > 0
                    THEN \E table \in player_performance(scoped_stats) :
                            display_df' = table /\ shown' = TRUE
                    ELSE display_df' = <<>> /\ shown' = FALSE
    /\ UNCHANGED <<db_vars, session_team_id, sessions, call_log,
                   detailed_possessions, shots, analysis, last_write,
                   last_score>>

\* the state Startup and two Manage Players submissions leave
InitTwoPlayers ==
    /\ teams = <<[team_id |-> 1, created_at |-> 0]>>
    /\ players = <<[player_id |-> 1, team_id |-> 1, player_name |-> "Ann",
                    jersey_number |-> "7"],
                   [player_id |-> 2, team_id |-> 1, player_name |-> "Bob",
                    jersey_number |-> "9"]>>
    /\ games = <<>>
    /\ possessions = <<>>
    /\ player_game_stats = <<>>
    /\ session_team_id = 1
    /\ sessions = 1
    /\ call_log = <<>>
    /\ stats_df = <<>>
    /\ display_df = <<>>
    /\ shown = FALSE
    /\ InitExt

\* the Game Tracker page, used until the Analytics page is opened: the
\* Analytics page writes nothing, so every state of the tables is reached
\* before it and every view of the page is taken from it
PageStartGame == last_read = NoCall /\ StartGame
PageTrackGood == last_read = NoCall /\ TrackGood
PageEndGame == last_read = NoCall /\ EndScoredGame

\* the stat form saved with 3 rebounds, a point and a turnover in a minute
PageSaveStats ==
    /\ last_read = NoCall
    /\ SaveStatsFrom({[rebounds |-> 3, points |-> 1, turnovers |-> 1,
                       minutes |-> 1]})

\* games tracked with possessions and stat lines of one player, then the
\* Analytics page
NextPages ==
    \/ PageStartGame
    \/ PageTrackGood
    \/ PageSaveStats
    \/ PageEndGame
    \/ ViewAnalytics

SpecPages == InitTracker /\ [][NextPages]_vars

\* games tracked with stat lines of two players, then the Analytics page
NextAggregate ==
    \/ PageStartGame
    \/ PageSaveStats
    \/ PageEndGame
    \/ ViewAnalytics

SpecAggregate == InitTwoPlayers /\ [][NextAggregate]_vars

----------------------------------------------------------------------------
(* C21: through the tracker page a step changes the score, the possessions *)
(* or the player stat lines of a game only if get_active_game returns that *)
(* game, so those of a completed game never change.                        *)

GameData(i) ==
    [score |-> <<games[i].final_score_us, games[i].final_score_them>>,
     possessions |-> get_possessions(games[i].game_id),
     stats |-> SelectSeq(player_game_stats,
                         LAMBDA r : r.game_id = games[i].game_id)]

C21_OnlyTheActiveGameIsWritten ==
    [][\A i \in 1..Len(games) :
          /\ GameData(i)' # GameData(i) =>
                \E df \in get_active_game(session_team_id) :
                   Len(df) = 1 /\ df[1].game_id = games[i].game_id
          /\ games[i].game_completed =>
                /\ games'[i].game_completed
                /\ GameData(i)' = GameData(i)]_vars

\* a completed game holds a score, a possession and a stat line, and the
\* game started after it has been written to
C21_Witness_WritesAfterCompletion ==
    /\ Len(games) >= 2
    /\ games[1].game_completed
    /\ GameData(1).score # <<0, 0>>
    /\ Len(GameData(1).possessions) > 0
    /\ Len(GameData(1).stats) > 0
    /\ ~games[2].game_completed
    /\ GameData(2).score # <<0, 0>>
    /\ Len(GameData(2).stats) > 0

----------------------------------------------------------------------------
(* C25: under the tracker page every possession and every player stat line *)
(* has the game_id of a stored game of the session's team, and every       *)
(* player stat line has the player_id of a stored player of that team.     *)

C25_RowsReferToGamesAndPlayersOfTheTeam ==
    /\ \A i \in 1..Len(possessions) :
          \E g \in Range(games) : /\ g.game_id = possessions[i].game_id
                                  /\ g.team_id = session_team_id
    /\ \A i \in 1..Len(player_game_stats) :
          /\ \E g \in Range(games) :
                /\ g.game_id = player_game_stats[i].game_id
                /\ g.team_id = session_team_id
          /\ \E p \in Range(players) :
                /\ p.player_id = player_game_stats[i].player_id
                /\ p.team_id = session_team_id

\* the second game of the team holds a possession and a stat line
C25_Witness_RowsOfSecondGame ==
    /\ \E i \in 1..Len(possessions) : possessions[i].game_id = 2
    /\ \E i \in 1..Len(player_game_stats) : player_game_stats[i].game_id = 2

----------------------------------------------------------------------------
(* C23: after Save Player Stats with R in the Rebounds input the player's  *)
(* row holds rebounds_offensive = floor(R / 2) and rebounds_defensive =    *)
(* R - floor(R / 2), which add up to R, and the form then shows R again;   *)
(* saving the form as it is shown for a stored row leaves the table as it  *)
(* is.                                                                     *)

StatRows(game_id, player_id) ==
    player_existing(get_player_stats(game_id), player_id)

C23_ReboundsSplitAndResave ==
    /\ last_write.op = "Save Player Stats" =>
          LET rows == StatRows(last_write.game_id, last_write.player_id)
              R == last_write.rebounds
          IN /\ Len(rows) = 1
             /\ rows[1].rebounds_offensive = R \div 2
             /\ rows[1].rebounds_defensive = R - (R \div 2)
             /\ rows[1].rebounds_offensive + rows[1].rebounds_defensive = R
             /\ form_values(rows).rebounds = R
    /\ \A i \in 1..Len(player_game_stats) :
          LET r == player_game_stats[i]
          IN upsert_player_stats(r.game_id, r.player_id,
                form_stats(form_values(StatRows(r.game_id, r.player_id))))
               = player_game_stats

\* an odd number of rebounds was saved and the form was then saved again
\* as shown
C23_Witness_OddReboundsResaved ==
    /\ last_write.op = "Save Player Stats"
    /\ last_write.rebounds = 3
    /\ last_write.resaved

----------------------------------------------------------------------------
(* C26: in a run of the tracker page for an active game update_game_score  *)
(* is called exactly when a score input returns a value other than the     *)
(* stored one, and then the game holds the returned pair; otherwise no     *)
(* game row changes.  A call of update_game_score changes the two score    *)
(* columns of the game with the given id and nothing else in the table.    *)

C26_ScoreIsWrittenOnlyWhenChanged ==
    [][last_score' # last_score =>
         LET c == last_score'
         IN /\ c.before = <<games[c.game_id].final_score_us,
                            games[c.game_id].final_score_them>>
            /\ c.op = "score inputs" => (c.called <=> c.returned # c.before)
            /\ Len(games') = Len(games)
            /\ \A i \in 1..Len(games) :
                  games'[i] =
                     IF c.called /\ games[i].game_id = c.game_id
                     THEN [games[i] EXCEPT !.final_score_us = c.returned[1],
                                           !.final_score_them = c.returned[2]]
                     ELSE games[i]]_vars

\* with two games stored, the score inputs were rendered without a write
\* after they had written a score
C26_Witness_RenderWithoutWrite ==
    /\ Len(games) = 2
    /\ last_score.op = "score inputs"
    /\ ~last_score.called
    /\ last_score.before # <<0, 0>>
    /\ games[1].final_score_us # games[2].final_score_us

----------------------------------------------------------------------------
(* Live Game Summary of the tracker page                                   *)

\* delta="Winning" if our_score > their_score else "Losing"
score_differential_delta(our_score, their_score) ==
    IF our_score > their_score THEN "Winning" ELSE "Losing"

\* the Score Differential metric the page shows for the active game, where
\* our_score and their_score are the values of the score inputs; the
\* metrics are shown only if the game has possessions
score_differential_metric(team_id) ==
    {[game_id |-> active_game[1].game_id,
      total_poss |-> Len(get_possessions(active_game[1].game_id)),
      score_differential |-> active_game[1].final_score_us
                             - active_game[1].final_score_them,
      delta |-> score_differential_delta(active_game[1].final_score_us,
                                         active_game[1].final_score_them)] :
       active_game \in
          {g \in get_active_game(team_id) :
              /\ Len(g) = 1
              /\ score_inputs_render(g[1])
              /\ Len(get_possessions(g[1].game_id)) > 0}}

----------------------------------------------------------------------------
(* C27: the label of the Score Differential metric is "Winning" exactly    *)
(* when our score is above theirs and "Losing" exactly when it is below;   *)
(* with a tied score it is neither.                                        *)

C27_LabelFollowsTheScore ==
    session_team_id # None =>
       \A s \in score_differential_metric(session_team_id) :
          /\ s.delta = "Winning" <=> s.score_differential > 0
          /\ s.delta = "Losing" <=> s.score_differential < 0

----------------------------------------------------------------------------
(* C22: the Analytics page covers completed games only.  The selector      *)
(* lists "All Games" and one label for each completed game of the team,    *)
(* the selected game is one of them, and the possessions and the stat      *)
(* lines analysed are those of the games in scope (all the completed       *)
(* games for "All Games"): a game that is not completed contributes        *)
(* nothing.  In SpecPages the tables stay as they are once the page is     *)
(* open, so the page on screen is compared with the tables of the state.   *)

CompletedGameIds(team_id) ==
    {games[i].game_id : i \in {j \in 1..Len(games) :
                                  /\ games[j].team_id = team_id
                                  /\ games[j].game_completed}}

GamesInScope ==
    IF last_read.selected_game_id = None
    THEN CompletedGameIds(session_team_id)
    ELSE {last_read.selected_game_id}

C22_AnalyticsCoversCompletedGamesOnly ==
    last_read.op = "Analytics" =>
       LET games_df == last_read.games_df
           options == last_read.game_options
           done == CompletedGameIds(session_team_id)
           in_scope == {r \in Range(possessions) : r.game_id \in GamesInScope}
       IN /\ Len(games_df) = Cardinality(done)
          /\ {games_df[k].game_id : k \in 1..Len(games_df)} = done
          /\ Len(options) = Len(games_df) + 1
          /\ options[1] = AllGamesOption
          /\ \A k \in 1..Len(games_df) : options[k + 1] = game_label(games_df[k])
          /\ GamesInScope \subseteq done
          /\ Range(last_read.possessions_df) = in_scope
          /\ Len(last_read.possessions_df) = Cardinality(in_scope)
          /\ \A i \in 1..Len(players), c \in StatCols :
                column_sum(SelectSeq(stats_df,
                     LAMBDA r : r.player_id = players[i].player_id), c)
                = column_sum(SelectSeq(player_game_stats,
                     LAMBDA r : /\ r.player_id = players[i].player_id
                                /\ r.game_id \in GamesInScope), c)
          /\ \A k \in 1..Len(stats_df) :
                \E i \in 1..Len(players) :
                   players[i].player_id = stats_df[k].player_id

\* "All Games" is on screen with possessions and stat lines of a completed
\* game, while the active game has a possession and a stat line of its own
C22_Witness_ActiveGameWithData ==
    /\ last_read.op = "Analytics"
    /\ last_read.selected_game_id = None
    /\ Len(last_read.possessions_df) > 0
    /\ Len(stats_df) > 0
    /\ \E i \in 1..Len(games) :
          /\ ~games[i].game_completed
          /\ \E r \in Range(possessions) : r.game_id = games[i].game_id
          /\ \E r \in Range(player_game_stats) : r.game_id = games[i].game_id

----------------------------------------------------------------------------
(* C24: with "All Games" selected every player with a stat line in a       *)
(* completed game has exactly one row (a player without one has none),     *)
(* and the net_impact of that row, computed from the summed columns, is    *)
(* the sum of the net_impact of the player's stat lines of the completed   *)
(* games; the table on screen shows the same value.                        *)

RECURSIVE SumOfImpacts(_)
SumOfImpacts(df) ==
    IF Len(df) = 0 THEN 0 ELSE net_impact(df[1]) + SumOfImpacts(Tail(df))

CompletedLinesOf(player_id) ==
    SelectSeq(player_game_stats,
       LAMBDA r : /\ r.player_id = player_id
                  /\ r.game_id \in CompletedGameIds(session_team_id))

C24_OneRowPerPlayerAndImpactAdds ==
    last_read.op = "Analytics" /\ last_read.selected_game_id = None =>
       \A i \in 1..Len(players) :
          LET lines == CompletedLinesOf(players[i].player_id)
              rows == {k \in 1..Len(stats_df) :
                         stats_df[k].player_id = players[i].player_id}
              shown_rows == {k \in 1..Len(display_df) :
                         display_df[k].player_id = players[i].player_id}
          IN /\ Cardinality(rows) = IF Len(lines) > 0 THEN 1 ELSE 0
             /\ Cardinality(shown_rows) = Cardinality(rows)
             /\ \A k \in rows : net_impact(stats_df[k]) = SumOfImpacts(lines)
             /\ \A k \in shown_rows :
                   display_df[k].net_impact = SumOfImpacts(lines)

\* "All Games" over two completed games: one player has a stat line in
\* both, the other in one of them
C24_Witness_TwoGamesSummed ==
    /\ last_read.op = "Analytics"
    /\ last_read.selected_game_id = None
    /\ Len(last_read.games_df) = 2
    /\ Len(stats_df) = 2
    /\ \E k, j \in 1..Len(stats_df) :
          stats_df[k].minutes_played = 2 /\ stats_df[j].minutes_played = 1

====
